---- MODULE Spec2Model ----
(***************************************************************************)
(* A model of the korones 6502 core: the bus access adapter, the opcode    *)
(* decoder, the addressing-mode resolver, the instruction executor and the *)
(* step loop (src/src/cpu.rs, src/src/cpu/addressing_mode.rs), over the    *)
(* three storage implementations the repository defines (the address-space *)
(* router of src/src/nes.rs and the two test doubles of src/src/cpu.rs).   *)
(*                                                                         *)
(* One call of cpu_step is one action.  A call is sequential code, so it   *)
(* is modelled by threading a record `st` (the Nes and the ghosts) through *)
(* operators named after the functions they model; where the code binds a  *)
(* value and uses it more than once, the rest of the function is a helper  *)
(* operator taking that value as a parameter.  A Rust panic (index out of  *)
(* bounds, checked-arithmetic overflow, unimplemented!) is recorded in     *)
(* st.fault; once a call has faulted nothing after the panic runs.         *)
(*                                                                         *)
(* Two more operations are modelled for the claims about them: a direct    *)
(* call of the address-space router (Bus::read / Bus::write), and a call   *)
(* of the ROM container parser (src/src/rom.rs) on a byte buffer.          *)
(***************************************************************************)
EXTENDS Integers, Sequences, FiniteSets, TLC

VARIABLES
    nes,              \* the Nes aggregate: cpu registers, wram, cpu_cycles
    bus,              \* the CpuBus implementation B the core is instantiated with
    overflow_checks,  \* build profile: TRUE when u16 `+` panics on overflow
    fault,            \* "none", or the panic that ended the process
    storage_accesses, \* ghost: completed B::read / B::write calls so far
    explicit_ticks,   \* ghost: ticks issued by resolver/executor, not by the adapter
    log,              \* ghost: the bus accesses of the latest call, in order
    last,             \* ghost: summary of the latest call
    previous,         \* ghost: summary of the call before the latest
    rom,              \* the byte buffer handed to the ROM container parser
    steps             \* ghost: number of calls made

vars == <<nes, bus, overflow_checks, fault, storage_accesses, explicit_ticks,
          log, last, previous, rom, steps>>

-----------------------------------------------------------------------------
(* Fixed-width arithmetic                                                  *)

U8 == \h100
U16 == \h10000
Byte == 0 .. 255

RECURSIVE BitAnd(_, _)
BitAnd(a, b) ==
    IF a = 0 \/ b = 0 THEN 0
    ELSE (IF a % 2 = 1 /\ b % 2 = 1 THEN 1 ELSE 0) + 2 * BitAnd(a \div 2, b \div 2)

RECURSIVE BitOr(_, _)
BitOr(a, b) ==
    IF a = 0 THEN b
    ELSE IF b = 0 THEN a
    ELSE (IF a % 2 = 1 \/ b % 2 = 1 THEN 1 ELSE 0) + 2 * BitOr(a \div 2, b \div 2)

RECURSIVE BitXor(_, _)
BitXor(a, b) ==
    IF a = 0 THEN b
    ELSE IF b = 0 THEN a
    ELSE (IF a % 2 # b % 2 THEN 1 ELSE 0) + 2 * BitXor(a \div 2, b \div 2)

wrapping_add8(a, b) == (a + b) % U8
wrapping_sub8(a, b) == (a - b + U8) % U8
wrapping_add16(a, b) == (a + b) % U16
wrapping_sub16(a, b) == (a - b + U16) % U16

\* A u128 is kept as its eight 16-bit limbs, least significant first, so
\* that the whole range up to 2^128 - 1 can be written down and the wrap of
\* wrapping_add at 2^128 is the carry out of the last limb, which is dropped.
Zero128 == <<0, 0, 0, 0, 0, 0, 0, 0>>

RECURSIVE add_limbs(_, _)
add_limbs(c, n) ==
    IF c = <<>> THEN <<>>
    ELSE <<(Head(c) + n) % U16>> \o add_limbs(Tail(c), (Head(c) + n) \div U16)

\* c.wrapping_add(n) on u128, for an n below 2^16
wrapping_add128(c, n) == add_limbs(c, n)

RECURSIVE sub_limbs(_, _, _)
sub_limbs(a, b, borrow) ==
    IF a = <<>> THEN <<>>
    ELSE <<(Head(a) - Head(b) - borrow + U16) % U16>>
         \o sub_limbs(Tail(a), Tail(b),
                      IF Head(a) - Head(b) - borrow < 0 THEN 1 ELSE 0)

\* a.wrapping_sub(b) on u128
wrapping_sub128(a, b) == sub_limbs(a, b, 0)

\* the u128 with the value n, for an n below 2^16
U128(n) == add_limbs(Zero128, n)

\* a < b on u128
RECURSIVE Less128(_, _)
Less128(a, b) ==
    /\ a # <<>>
    /\ \/ a[Len(a)] < b[Len(b)]
       \/ /\ a[Len(a)] = b[Len(b)]
          /\ Less128(SubSeq(a, 1, Len(a) - 1), SubSeq(b, 1, Len(b) - 1))

-----------------------------------------------------------------------------
(* Status flags (bitflags! struct Status: u8)                              *)

C == \h01
Z == \h02
I == \h04
D == \h08
V == \h40
N == \h80
INTERRUPT_B == \h20
INSTRUCTION_B == \h30

contains(p, f) == BitAnd(p, f) = f
insert(p, f) == BitOr(p, f)
remove(p, f) == BitAnd(p, \hFF - f)
set(p, f, b) == IF b THEN insert(p, f) ELSE remove(p, f)

\* mutation of set_zn: Negative left as it was
set_zn_zero_only(p, v) == set(p, Z, v = 0)

set_zn(p, v) == set(set(p, Z, v = 0), N, BitAnd(v, \h80) = \h80)

-----------------------------------------------------------------------------
(* Faults and the threaded call state                                      *)

Faulted(st) == st.fault # "none"

Fail(st, what) == IF Faulted(st) THEN st ELSE [st EXCEPT !.fault = what]

Ret(st, v) == [st |-> st, v |-> v]

\* An assignment to a register; it does not run after a panic.
SetReg(st, r, v) == IF Faulted(st) THEN st ELSE [st EXCEPT !.cpu[r] = v]

\* nes.cpu.p.set(f, b) and nes.cpu.p.set_zn(v) on the call state
SetFlag(st, f, b) == SetReg(st, "p", set(st.cpu.p, f, b))

SetZN(st, v) == SetReg(st, "p", set_zn(st.cpu.p, v))

\* nes.cpu.<reg> = v; nes.cpu.p.set_zn(nes.cpu.<reg>)
assign_zn(st, reg, v) == SetZN(SetReg(st, reg, v), v)

\* nes.cpu.pc = nes.cpu.pc.wrapping_add(n)
advance_pc(st, n) == SetReg(st, "pc", wrapping_add16(st.cpu.pc, n))

\* nes.cpu.pc = <a word that was read>
load_pc(r) == SetReg(r.st, "pc", r.v)

\* Status::default() / Cpu::default(): every register zero, no flag set.
CpuDefault == [a |-> 0, x |-> 0, y |-> 0, s |-> 0, p |-> 0, pc |-> 0]

-----------------------------------------------------------------------------
(* Storage: wram is [u8; 0x07FF], zero-initialised.  It is kept as the     *)
(* function from the cells holding a non-zero byte to that byte.           *)

WRAM_LEN == \h07FF

EmptyWram == [i \in {} |-> 0]

WramGet(w, i) == IF i \in DOMAIN w THEN w[i] ELSE 0

WramSet(w, i, v) ==
    IF v = 0 THEN [j \in (DOMAIN w) \ {i} |-> w[j]]
    ELSE [j \in (DOMAIN w) \cup {i} |-> IF j = i THEN v ELSE w[j]]

\* nes.wram[addr as usize]: a bounds-checked index.
WramIndex(st, addr) ==
    IF addr < WRAM_LEN THEN Ret(st, WramGet(st.wram, addr))
    ELSE Ret(Fail(st, "index_out_of_bounds"), 0)

\* nes.wram[addr as usize] = value
WramAssign(st, addr, value) ==
    IF addr < WRAM_LEN THEN [st EXCEPT !.wram = WramSet(@, addr, value)]
    ELSE Fail(st, "index_out_of_bounds")

\* mapper: Box::new(Empty {})
Empty_read(addr) == 0

Empty_write(st, addr, value) == st

CpuBusMock_read(st, addr) == WramIndex(st, addr)

CpuBusMock_write(st, addr, value) == WramAssign(st, addr, value)

CpuBusMockForBRK_read(st, addr) ==
    IF addr = \hFFFE THEN Ret(st, \h23)
    ELSE IF addr = \hFFFF THEN Ret(st, \h40)
    ELSE WramIndex(st, addr)

CpuBusMockForBRK_write(st, addr, value) == WramAssign(st, addr, value)

Bus_read(st, addr) ==
    IF addr <= \h07FF THEN WramIndex(st, addr)
    ELSE IF addr <= \h1FFF THEN Ret(st, Empty_read(addr - \h0800))
    ELSE Ret(st, 0)

Bus_write(st, addr, value) ==
    IF addr <= \h07FF THEN WramAssign(st, addr, value)
    ELSE IF addr <= \h1FFF THEN Empty_write(st, addr - \h0800, value)
    ELSE st

Buses == {"CpuBusMock", "CpuBusMockForBRK", "Bus"}

\* ghost: a storage call that returned is counted
CountedRead(r) ==
    IF Faulted(r.st) THEN r
    ELSE Ret([r.st EXCEPT !.storage_accesses = @ + 1], r.v)

CountedWrite(w) ==
    IF Faulted(w) THEN w ELSE [w EXCEPT !.storage_accesses = @ + 1]

\* B::read / B::write for the instantiation st.bus
B_read(st, addr) ==
    CountedRead(CASE st.bus = "CpuBusMock" -> CpuBusMock_read(st, addr)
                  [] st.bus = "CpuBusMockForBRK" -> CpuBusMockForBRK_read(st, addr)
                  [] OTHER -> Bus_read(st, addr))

B_write(st, addr, value) ==
    CountedWrite(CASE st.bus = "CpuBusMock" -> CpuBusMock_write(st, addr, value)
                   [] st.bus = "CpuBusMockForBRK" -> CpuBusMockForBRK_write(st, addr, value)
                   [] OTHER -> Bus_write(st, addr, value))

-----------------------------------------------------------------------------
(* Clock: CpuTickMock is the repository's only CpuTick.  cpu_cycles is a   *)
(* u128 advanced with wrapping_add: from 2^128 - 1 one tick gives 0.       *)

\* Seeded fault: a clock that does not advance
tick_stalled(st) == st

tick(st) ==
    IF Faulted(st) THEN st
    ELSE [st EXCEPT !.cpu_cycles = wrapping_add128(@, 1)]

tick_n(st, n) ==
    IF Faulted(st) THEN st
    ELSE [st EXCEPT !.cpu_cycles = wrapping_add128(@, n)]

\* T::tick(nes) / T::tick_n(nes, n) written in the resolver or the executor
\* mutation of explicit_tick: the cycle is not counted
explicit_tick_dropped(st) == st

explicit_tick(st) ==
    IF Faulted(st) THEN st ELSE [tick(st) EXCEPT !.explicit_ticks = @ + 1]

explicit_tick_n(st, n) ==
    IF Faulted(st) THEN st ELSE [tick_n(st, n) EXCEPT !.explicit_ticks = @ + n]

-----------------------------------------------------------------------------
(* Bus access adapter (CpuBusInternal and the helpers built on it)         *)

\* ghost: one log entry per adapter access that returned: the byte the
\* adapter returned (read) or was given (write), and the clock count when the
\* adapter was entered and when it returned.
Logged(st, op, addr, value, clock_before) ==
    [st EXCEPT !.log = Append(@, [op |-> op, addr |-> addr, value |-> value,
                                  clock_before |-> clock_before,
                                  clock_after |-> st.cpu_cycles])]

\* Seeded fault: the adapter returns the byte without the tick
read_unticked(st, addr, r) ==
    IF Faulted(r.st) THEN Ret(r.st, 0)
    ELSE Ret(Logged(r.st, "read", addr, r.v, st.cpu_cycles), r.v)

\* let v = B::read(nes, addr); T::tick(nes); v
read_ticked(st, addr, r) ==
    IF Faulted(r.st) THEN Ret(r.st, 0)
    ELSE Ret(Logged(tick(r.st), "read", addr, r.v, st.cpu_cycles), r.v)

CpuBusInternal_read(st, addr) ==
    IF Faulted(st) THEN Ret(st, 0) ELSE read_ticked(st, addr, B_read(st, addr))

\* B::write(nes, addr, value); T::tick(nes)
write_ticked(st, addr, value, w) ==
    IF Faulted(w) THEN w
    ELSE Logged(tick(w), "write", addr, value, st.cpu_cycles)

CpuBusInternal_write(st, addr, value) ==
    IF Faulted(st) THEN st ELSE write_ticked(st, addr, value, B_write(st, addr, value))

read(st, addr) == CpuBusInternal_read(st, addr)

write(st, addr, value) == CpuBusInternal_write(st, addr, value)

\* `addr + 1` on u16: panics when overflow checks are on, wraps otherwise.
checked_add16(st, a, b) ==
    IF a + b >= U16 /\ st.overflow_checks
    THEN Ret(Fail(st, "add_overflow"), 0)
    ELSE Ret(st, (a + b) % U16)

\* low | (high << 8)
join_word(low, high) == Ret(high.st, BitOr(low, high.v * 256))

read_at(nx) == CpuBusInternal_read(nx.st, nx.v)

read_word_high(addr, lo) ==
    join_word(lo.v, read_at(checked_add16(lo.st, addr, 1)))

read_word(st, addr) == read_word_high(addr, CpuBusInternal_read(st, addr))

\* the high byte comes from (addr & 0xFF00) | ((addr + 1) & 0x00FF)
read_same_page(addr, nx) ==
    CpuBusInternal_read(nx.st, BitOr(BitAnd(addr, \hFF00), BitAnd(nx.v, \h00FF)))

read_on_indirect_high(addr, low) ==
    join_word(low.v, read_same_page(addr, checked_add16(low.st, addr, 1)))

\* Seeded fault: the high byte taken from addr + 1, across the page boundary
read_on_indirect_next_page(st, addr) == read_word(st, addr)

read_on_indirect(st, addr) ==
    read_on_indirect_high(addr, CpuBusInternal_read(st, addr))

decrement_s(st) == SetReg(st, "s", wrapping_sub8(st.cpu.s, 1))

push_stack(st, v) == decrement_s(write(st, st.cpu.s, v))

read_at_s(st) == read(st, st.cpu.s)

pull_stack(st) == read_at_s(SetReg(st, "s", wrapping_add8(st.cpu.s, 1)))

\* mutation of push_stack_word: the low byte is pushed first
push_stack_word_low_first(st, v) ==
    push_stack(push_stack(st, BitAnd(v, \hFF)), v \div 256)

push_stack_word(st, v) ==
    push_stack(push_stack(st, v \div 256), BitAnd(v, \hFF))

pull_stack_high(low) == join_word(low.v, pull_stack(low.st))

\* mutation of pull_stack_word: the first byte pulled taken as the high byte
pull_stack_word_high_first(st) ==
    LET high == pull_stack(st)
        low == pull_stack(high.st)
    IN  Ret(low.st, BitOr(low.v, high.v * 256))

pull_stack_word(st) == pull_stack_high(pull_stack(st))

page_crossed(a, b) ==
    BitAnd(wrapping_add16(a, b), \hFF00) # BitAnd(b, \hFF00)

\* mutation of branch_page_tick: no tick for a page crossing
branch_page_tick_never(st, operand) == st

branch_page_tick(st, operand) ==
    IF page_crossed(operand, st.cpu.pc) THEN explicit_tick(st) ELSE st

branch(st, operand) ==
    advance_pc(branch_page_tick(explicit_tick(st), operand), operand)

-----------------------------------------------------------------------------
(* Instructions: type Instruction = (Mnemonic, AddressingMode).  A mode is *)
(* a record; `oops` is meaningful for AbsoluteX / AbsoluteY only and FALSE *)
(* for the variants that carry no field.                                   *)

Mode(name) == [name |-> name, oops |-> FALSE]

Implicit == Mode("Implicit")
Accumulator == Mode("Accumulator")
Immediate == Mode("Immediate")
ZeroPage == Mode("ZeroPage")
ZeroPageX == Mode("ZeroPageX")
ZeroPageY == Mode("ZeroPageY")
Absolute == Mode("Absolute")
AbsoluteX(oops) == [name |-> "AbsoluteX", oops |-> oops]
AbsoluteY(oops) == [name |-> "AbsoluteY", oops |-> oops]
Relative == Mode("Relative")
Indirect == Mode("Indirect")
IndexedIndirect == Mode("IndexedIndirect")
IndirectIndexed == Mode("IndirectIndexed")

AddressingMode ==
    {Implicit, Accumulator, Immediate, ZeroPage, ZeroPageX, ZeroPageY, Absolute,
     Relative, Indirect, IndexedIndirect, IndirectIndexed}
    \cup {AbsoluteX(o) : o \in BOOLEAN} \cup {AbsoluteY(o) : o \in BOOLEAN}

Unofficial == {"LAX", "SAX", "DCP", "ISB", "SLO", "RLA", "SRE", "RRA"}

Mnemonic ==
    {"LDA", "LDX", "LDY", "STA", "STX", "STY",
     "TAX", "TSX", "TAY", "TXA", "TXS", "TYA",
     "PHA", "PHP", "PLA", "PLP",
     "AND", "EOR", "ORA", "BIT",
     "ADC", "SBC", "CMP", "CPX", "CPY",
     "INC", "INX", "INY", "DEC", "DEX", "DEY",
     "ASL", "LSR", "ROL", "ROR",
     "JMP", "JSR", "RTS", "RTI",
     "BCC", "BCS", "BEQ", "BMI", "BNE", "BPL", "BVC", "BVS",
     "CLC", "CLD", "CLI", "CLV", "SEC", "SED", "SEI",
     "BRK", "NOP"} \cup Unofficial

Instruction(mnemonic, mode) == [mnemonic |-> mnemonic, mode |-> mode]

\* match opcode { ... _ => (Mnemonic::NOP, AddressingMode::Implicit) }
match_opcode(opcode) ==
    CASE opcode = \h69 -> Instruction("ADC", Immediate)
      [] opcode = \h65 -> Instruction("ADC", ZeroPage)
      [] opcode = \h75 -> Instruction("ADC", ZeroPageX)
      [] opcode = \h6D -> Instruction("ADC", Absolute)
      [] opcode = \h7D -> Instruction("ADC", AbsoluteX(TRUE))
      [] opcode = \h79 -> Instruction("ADC", AbsoluteY(TRUE))
      [] opcode = \h61 -> Instruction("ADC", IndexedIndirect)
      [] opcode = \h71 -> Instruction("ADC", IndirectIndexed)
      [] opcode = \h29 -> Instruction("AND", Immediate)
      [] opcode = \h25 -> Instruction("AND", ZeroPage)
      [] opcode = \h35 -> Instruction("AND", ZeroPageX)
      [] opcode = \h2D -> Instruction("AND", Absolute)
      [] opcode = \h3D -> Instruction("AND", AbsoluteX(TRUE))
      [] opcode = \h39 -> Instruction("AND", AbsoluteY(TRUE))
      [] opcode = \h21 -> Instruction("AND", IndexedIndirect)
      [] opcode = \h31 -> Instruction("AND", IndirectIndexed)
      [] opcode = \h0A -> Instruction("ASL", Accumulator)
      [] opcode = \h06 -> Instruction("ASL", ZeroPage)
      [] opcode = \h16 -> Instruction("ASL", ZeroPageX)
      [] opcode = \h0E -> Instruction("ASL", Absolute)
      [] opcode = \h1E -> Instruction("ASL", AbsoluteX(FALSE))
      [] opcode = \h90 -> Instruction("BCC", Relative)
      [] opcode = \hB0 -> Instruction("BCS", Relative)
      [] opcode = \hF0 -> Instruction("BEQ", Relative)
      [] opcode = \h24 -> Instruction("BIT", ZeroPage)
      [] opcode = \h2C -> Instruction("BIT", Absolute)
      [] opcode = \h30 -> Instruction("BMI", Relative)
      [] opcode = \hD0 -> Instruction("BNE", Relative)
      [] opcode = \h10 -> Instruction("BPL", Relative)
      [] opcode = \h00 -> Instruction("BRK", Implicit)
      [] opcode = \h50 -> Instruction("BVC", Relative)
      [] opcode = \h70 -> Instruction("BVS", Relative)
      [] opcode = \h18 -> Instruction("CLC", Implicit)
      [] opcode = \hD8 -> Instruction("CLD", Implicit)
      [] opcode = \h58 -> Instruction("CLI", Implicit)
      [] opcode = \hB8 -> Instruction("CLV", Implicit)
      [] opcode = \hC9 -> Instruction("CMP", Immediate)
      [] opcode = \hC5 -> Instruction("CMP", ZeroPage)
      [] opcode = \hD5 -> Instruction("CMP", ZeroPageX)
      [] opcode = \hCD -> Instruction("CMP", Absolute)
      [] opcode = \hDD -> Instruction("CMP", AbsoluteX(TRUE))
      [] opcode = \hD9 -> Instruction("CMP", AbsoluteY(FALSE))
      [] opcode = \hC1 -> Instruction("CMP", IndexedIndirect)
      [] opcode = \hD1 -> Instruction("CMP", IndirectIndexed)
      [] opcode = \hE0 -> Instruction("CPX", Immediate)
      [] opcode = \hE4 -> Instruction("CPX", ZeroPage)
      [] opcode = \hEC -> Instruction("CPX", Absolute)
      [] opcode = \hC0 -> Instruction("CPY", Immediate)
      [] opcode = \hC4 -> Instruction("CPY", ZeroPage)
      [] opcode = \hCC -> Instruction("CPY", Absolute)
      [] opcode = \hC6 -> Instruction("DEC", ZeroPage)
      [] opcode = \hD6 -> Instruction("DEC", ZeroPageX)
      [] opcode = \hCE -> Instruction("DEC", Absolute)
      [] opcode = \hDE -> Instruction("DEC", AbsoluteX(FALSE))
      [] opcode = \hCA -> Instruction("DEX", Implicit)
      [] opcode = \h88 -> Instruction("DEY", Implicit)
      [] opcode = \h49 -> Instruction("EOR", Immediate)
      [] opcode = \h45 -> Instruction("EOR", ZeroPage)
      [] opcode = \h55 -> Instruction("EOR", ZeroPageX)
      [] opcode = \h4D -> Instruction("EOR", Absolute)
      [] opcode = \h5D -> Instruction("EOR", AbsoluteX(TRUE))
      [] opcode = \h59 -> Instruction("EOR", AbsoluteY(TRUE))
      [] opcode = \h41 -> Instruction("EOR", IndexedIndirect)
      [] opcode = \h51 -> Instruction("EOR", IndirectIndexed)
      [] opcode = \hE6 -> Instruction("INC", ZeroPage)
      [] opcode = \hF6 -> Instruction("INC", ZeroPageX)
      [] opcode = \hEE -> Instruction("INC", Absolute)
      [] opcode = \hFE -> Instruction("INC", AbsoluteX(FALSE))
      [] opcode = \hE8 -> Instruction("INX", Implicit)
      [] opcode = \hC8 -> Instruction("INY", Implicit)
      [] opcode = \h4C -> Instruction("JMP", Absolute)
      [] opcode = \h6C -> Instruction("JMP", Indirect)
      [] opcode = \h20 -> Instruction("JSR", Absolute)
      [] opcode = \hA9 -> Instruction("LDA", Immediate)
      [] opcode = \hA5 -> Instruction("LDA", ZeroPage)
      [] opcode = \hB5 -> Instruction("LDA", ZeroPageX)
      [] opcode = \hAD -> Instruction("LDA", Absolute)
      [] opcode = \hBD -> Instruction("LDA", AbsoluteX(TRUE))
      [] opcode = \hB9 -> Instruction("LDA", AbsoluteY(TRUE))
      [] opcode = \hA1 -> Instruction("LDA", IndexedIndirect)
      [] opcode = \hB1 -> Instruction("LDA", IndirectIndexed)
      [] opcode = \hA2 -> Instruction("LDX", Immediate)
      [] opcode = \hA6 -> Instruction("LDX", ZeroPage)
      [] opcode = \hB6 -> Instruction("LDX", ZeroPageY)
      [] opcode = \hAE -> Instruction("LDX", Absolute)
      [] opcode = \hBE -> Instruction("LDX", AbsoluteY(TRUE))
      [] opcode = \hA0 -> Instruction("LDY", Immediate)
      [] opcode = \hA4 -> Instruction("LDY", ZeroPage)
      [] opcode = \hB4 -> Instruction("LDY", ZeroPageX)
      [] opcode = \hAC -> Instruction("LDY", Absolute)
      [] opcode = \hBC -> Instruction("LDY", AbsoluteY(TRUE))
      [] opcode = \h4A -> Instruction("LSR", Accumulator)
      [] opcode = \h46 -> Instruction("LSR", ZeroPage)
      [] opcode = \h56 -> Instruction("LSR", ZeroPageX)
      [] opcode = \h4E -> Instruction("LSR", Absolute)
      [] opcode = \h5E -> Instruction("LSR", AbsoluteX(FALSE))
      [] opcode = \hEA -> Instruction("NOP", Implicit)
      [] opcode = \h09 -> Instruction("ORA", Immediate)
      [] opcode = \h05 -> Instruction("ORA", ZeroPage)
      [] opcode = \h15 -> Instruction("ORA", ZeroPageX)
      [] opcode = \h0D -> Instruction("ORA", Absolute)
      [] opcode = \h1D -> Instruction("ORA", AbsoluteX(TRUE))
      [] opcode = \h19 -> Instruction("ORA", AbsoluteY(TRUE))
      [] opcode = \h01 -> Instruction("ORA", IndexedIndirect)
      [] opcode = \h11 -> Instruction("ORA", IndirectIndexed)
      [] opcode = \h48 -> Instruction("PHA", Implicit)
      [] opcode = \h08 -> Instruction("PHP", Implicit)
      [] opcode = \h68 -> Instruction("PLA", Implicit)
      [] opcode = \h28 -> Instruction("PLP", Implicit)
      [] opcode = \h2A -> Instruction("ROL", Accumulator)
      [] opcode = \h26 -> Instruction("ROL", ZeroPage)
      [] opcode = \h36 -> Instruction("ROL", ZeroPageX)
      [] opcode = \h2E -> Instruction("ROL", Absolute)
      [] opcode = \h3E -> Instruction("ROL", AbsoluteX(FALSE))
      [] opcode = \h6A -> Instruction("ROR", Accumulator)
      [] opcode = \h66 -> Instruction("ROR", ZeroPage)
      [] opcode = \h76 -> Instruction("ROR", ZeroPageX)
      [] opcode = \h6E -> Instruction("ROR", Absolute)
      [] opcode = \h7E -> Instruction("ROR", AbsoluteX(FALSE))
      [] opcode = \h40 -> Instruction("RTI", Implicit)
      [] opcode = \h60 -> Instruction("RTS", Implicit)
      [] opcode = \hE9 -> Instruction("SBC", Immediate)
      [] opcode = \hE5 -> Instruction("SBC", ZeroPage)
      [] opcode = \hF5 -> Instruction("SBC", ZeroPageX)
      [] opcode = \hED -> Instruction("SBC", Absolute)
      [] opcode = \hFD -> Instruction("SBC", AbsoluteX(TRUE))
      [] opcode = \hF9 -> Instruction("SBC", AbsoluteY(TRUE))
      [] opcode = \hE1 -> Instruction("SBC", IndexedIndirect)
      [] opcode = \hF1 -> Instruction("SBC", IndirectIndexed)
      [] opcode = \h38 -> Instruction("SEC", Implicit)
      [] opcode = \hF8 -> Instruction("SED", Implicit)
      [] opcode = \h78 -> Instruction("SEI", Implicit)
      [] opcode = \h85 -> Instruction("STA", ZeroPage)
      [] opcode = \h95 -> Instruction("STA", ZeroPageX)
      [] opcode = \h8D -> Instruction("STA", Absolute)
      [] opcode = \h9D -> Instruction("STA", AbsoluteX(FALSE))
      [] opcode = \h99 -> Instruction("STA", AbsoluteY(FALSE))
      [] opcode = \h81 -> Instruction("STA", ZeroPage)
      [] opcode = \h91 -> Instruction("STA", ZeroPage)
      [] opcode = \h86 -> Instruction("STX", ZeroPage)
      [] opcode = \h96 -> Instruction("STX", ZeroPageY)
      [] opcode = \h8E -> Instruction("STX", Absolute)
      [] opcode = \h84 -> Instruction("STY", ZeroPage)
      [] opcode = \h94 -> Instruction("STY", ZeroPageX)
      [] opcode = \h8C -> Instruction("STY", Absolute)
      [] opcode = \hAA -> Instruction("TAX", Implicit)
      [] opcode = \hA8 -> Instruction("TAY", Implicit)
      [] opcode = \hBA -> Instruction("TSX", Implicit)
      [] opcode = \h8A -> Instruction("TXA", Implicit)
      [] opcode = \h9A -> Instruction("TXS", Implicit)
      [] opcode = \h98 -> Instruction("TYA", Implicit)
      [] OTHER -> Instruction("NOP", Implicit)

\* Seeded fault: an undocumented byte that is given an arm of its own
decode_arm_for_undocumented(opcode) ==
    IF opcode = \h1A THEN Instruction("INC", Accumulator) ELSE match_opcode(opcode)

\* Seeded fault: an arm that returns one of the declared unofficial operations
decode_arm_for_LAX(opcode) ==
    IF opcode = \hA7 THEN Instruction("LAX", ZeroPage) ELSE match_opcode(opcode)

\* mutation of decode: an undocumented byte taken as a two-byte no-operation
decode_arm_for_NOP_immediate(opcode) ==
    IF opcode = \h80 THEN Instruction("NOP", Immediate) ELSE match_opcode(opcode)

decode(opcode) == match_opcode(opcode)

-----------------------------------------------------------------------------
(* Addressing-mode resolver                                                *)

\* mutation of operand_after: pc moved past one operand byte whatever the mode
operand_after_one_byte(r, n) == Ret(advance_pc(r.st, 1), r.v)

\* the operand that was read, with pc moved past the n operand bytes
operand_after(r, n) == Ret(advance_pc(r.st, n), r.v)

\* Seeded fault: the sum of base and index without the 8-bit mask
zero_page_indexed_unmasked(r, index) ==
    Ret(advance_pc(r.st, 1), r.v + r.st.cpu[index])

\* (read(pc) as u16 + index as u16) & 0xFF
zero_page_indexed(r, index) ==
    Ret(advance_pc(r.st, 1), BitAnd(r.v + r.st.cpu[index], \hFF))

\* Seeded fault: the extra tick issued whatever `oops` says
oops_tick_unconditional(st, index, v, oops) == explicit_tick(st)

\* if oops { if page_crossed(index, v) { tick } } else { tick }
oops_tick(st, index, v, oops) ==
    IF oops
    THEN IF page_crossed(st.cpu[index], v) THEN explicit_tick(st) ELSE st
    ELSE explicit_tick(st)

absolute_indexed(r, index, oops) ==
    Ret(oops_tick(advance_pc(r.st, 2), index, r.v, oops),
        wrapping_add16(r.v, r.st.cpu[index]))

indirect(m) == operand_after(read_on_indirect(m.st, m.v), 2)

indexed_indirect_done(r) == Ret(explicit_tick(advance_pc(r.st, 1)), r.v)

\* mutation of indexed_indirect: X added to the base without the 8-bit wrap
indexed_indirect_unwrapped(m) ==
    indexed_indirect_done(read_on_indirect(m.st, m.v + m.st.cpu.x))

indexed_indirect(m) ==
    indexed_indirect_done(read_on_indirect(m.st, wrapping_add8(m.v, m.st.cpu.x)))

\* mutation of indirect_indexed_done: the extra tick taken on every call
indirect_indexed_done_always_tick(n) ==
    Ret(oops_tick(advance_pc(n.st, 1), "y", n.v, FALSE),
        wrapping_add16(n.v, n.st.cpu.y))

indirect_indexed_done(n) ==
    Ret(oops_tick(advance_pc(n.st, 1), "y", n.v, TRUE),
        wrapping_add16(n.v, n.st.cpu.y))

indirect_indexed(m) == indirect_indexed_done(read_on_indirect(m.st, m.v))

get_operand(st, addressing_mode) ==
    CASE addressing_mode.name = "Implicit" -> Ret(st, 0)
      [] addressing_mode.name = "Accumulator" -> Ret(st, st.cpu.a)
      [] addressing_mode.name = "Immediate" -> Ret(advance_pc(st, 1), st.cpu.pc)
      [] addressing_mode.name = "ZeroPage" -> operand_after(read(st, st.cpu.pc), 1)
      [] addressing_mode.name = "ZeroPageX" ->
            zero_page_indexed(read(st, st.cpu.pc), "x")
      [] addressing_mode.name = "ZeroPageY" ->
            zero_page_indexed(read(st, st.cpu.pc), "y")
      [] addressing_mode.name = "Absolute" ->
            operand_after(read_word(st, st.cpu.pc), 2)
      [] addressing_mode.name = "AbsoluteX" ->
            absolute_indexed(read_word(st, st.cpu.pc), "x", addressing_mode.oops)
      [] addressing_mode.name = "AbsoluteY" ->
            absolute_indexed(read_word(st, st.cpu.pc), "y", addressing_mode.oops)
      [] addressing_mode.name = "Relative" -> operand_after(read(st, st.cpu.pc), 1)
      [] addressing_mode.name = "Indirect" -> indirect(read_word(st, st.cpu.pc))
      [] addressing_mode.name = "IndexedIndirect" ->
            indexed_indirect(read(st, st.cpu.pc))
      [] addressing_mode.name = "IndirectIndexed" ->
            indirect_indexed(read(st, st.cpu.pc))

-----------------------------------------------------------------------------
(* Instruction executor: `execute` has one arm per arm of `match           *)
(* instruction`; the operators before it are the bodies of the arms that   *)
(* bind a value and use it again.                                          *)

\* `r as u8` of an i16 difference of two bytes
as_u8(r) == (r + U8) % U8

\* v << 1 and v >> 1 on u8
shl8(v) == (v * 2) % U8

shr8(v) == v \div 2

\* nes.cpu.<reg> = <byte read>; set_zn(nes.cpu.<reg>)
load(r, reg) == assign_zn(r.st, reg, r.v)

\* nes.cpu.<reg> = v; set_zn(nes.cpu.<reg>); T::tick(nes)
register_op(st, reg, v) == explicit_tick(assign_zn(st, reg, v))

\* mutation of restore_status: the pulled byte becomes the status as it is
restore_status_unmasked(v) == SetReg(v.st, "p", v.v)

\* Status::from_bits_unchecked(v) & !Status::INSTRUCTION_B
restore_status(v) == SetReg(v.st, "p", BitAnd(v.v, \hFF - INSTRUCTION_B))

and_a(r) == assign_zn(r.st, "a", BitAnd(r.st.cpu.a, r.v))

eor_a(r) == assign_zn(r.st, "a", BitXor(r.st.cpu.a, r.v))

ora_a(r) == assign_zn(r.st, "a", BitOr(r.st.cpu.a, r.v))

\* set_zn(b); set(V, b & 0x40 == 0x40)
bit_flags(st, b) == SetFlag(SetZN(st, b), V, BitAnd(b, \h40) = \h40)

\* let b = nes.cpu.a & read(operand)
bit_test(r) == bit_flags(r.st, BitAnd(r.st.cpu.a, r.v))

\* v >> 7 & 1
bit7(v) == BitAnd(v \div 128, 1)

\* let c6 = a7 ^ m7 ^ (r >> 7 & 1)
carry6(a, m, r) == BitXor(BitXor(bit7(a), bit7(m)), bit7(r))

\* let c7 = (a7 & m7) | (a7 & c6) | (m7 & c6)
carry7(a7, m7, c6) == BitOr(BitOr(BitAnd(a7, m7), BitAnd(a7, c6)), BitAnd(m7, c6))

\* set(C, c7 == 1); set(V, c6 ^ c7 == 1)
carry_flags(st, c6, c7) == SetFlag(SetFlag(st, C, c7 = 1), V, BitXor(c6, c7) = 1)

\* what ADC and SBC do once r is known: the flags from a, m and r, then
\* nes.cpu.a = r and set_zn
arith_result(st, m, r) ==
    assign_zn(carry_flags(st, carry6(st.cpu.a, m, r),
                          carry7(bit7(st.cpu.a), bit7(m), carry6(st.cpu.a, m, r))),
              "a", r)

\* mutation of carry_in: with D set the sum is adjusted to a decimal digit
carry_in_decimal(r, p) ==
    IF contains(p, D) /\ BitAnd(r, \h0F) > 9
    THEN wrapping_add8(IF contains(p, C) THEN wrapping_add8(r, 1) ELSE r, 6)
    ELSE IF contains(p, C) THEN wrapping_add8(r, 1) ELSE r

\* if p.contains(C) { r = r.wrapping_add(1) }
carry_in(r, p) == IF contains(p, C) THEN wrapping_add8(r, 1) ELSE r

\* Seeded fault: ADC that ignores the carry-in
adc_without_carry_in(m) ==
    arith_result(m.st, m.v, wrapping_add8(m.st.cpu.a, m.v))

\* let mut r = nes.cpu.a.wrapping_add(m), with m the byte read
adc(m) == arith_result(m.st, m.v, carry_in(wrapping_add8(m.st.cpu.a, m.v), m.st.cpu.p))

\* let mut r = nes.cpu.a.wrapping_sub(m), with m the byte read
sbc(m) == arith_result(m.st, m.v, carry_in(wrapping_sub8(m.st.cpu.a, m.v), m.st.cpu.p))

\* set_zn(r as u8); set(C, 0 < r)
compare_flags(st, r) == SetFlag(SetZN(st, as_u8(r)), C, 0 < r)

\* let r = nes.cpu.<reg> as i16 - read(operand) as i16
compare(m, reg) == compare_flags(m.st, m.st.cpu[reg] - m.v)

\* INC, DEC: write(operand, r); set_zn(r); tick
write_back_zn(st, operand, r) == explicit_tick(SetZN(write(st, operand, r), r))

inc_mem(m, operand) == write_back_zn(m.st, operand, wrapping_add8(m.v, 1))

dec_mem(m, operand) == write_back_zn(m.st, operand, wrapping_sub8(m.v, 1))

\* shifts and rotates of memory: set_zn(m); write(operand, m); tick
zn_write_back(st, operand, m) == explicit_tick(write(SetZN(st, m), operand, m))

execute_ASL_Accumulator(st) ==
    register_op(SetFlag(st, C, BitAnd(st.cpu.a, \h80) = \h80), "a", shl8(st.cpu.a))

asl_mem(r, operand) == zn_write_back(r.st, operand, shl8(r.v))

execute_LSR_Accumulator(st) ==
    register_op(SetFlag(st, C, BitAnd(st.cpu.a, \h80) = \h80), "a", shr8(st.cpu.a))

lsr_mem(r, operand) == zn_write_back(r.st, operand, shr8(r.v))

\* mutation of rol: the carry does not enter at bit 0
rol_without_carry(v, p) == shl8(v)

\* v <<= 1; if p.contains(C) { v |= 1 }
rol(v, p) == IF contains(p, C) THEN BitOr(shl8(v), 1) ELSE shl8(v)

\* mutation of ror: the carry does not enter at bit 7
ror_without_carry(v, p) == shr8(v)

\* v >>= 1; if p.contains(C) { v |= 0x80 }
ror(v, p) == IF contains(p, C) THEN BitOr(shr8(v), \h80) ELSE shr8(v)

execute_ROL_Accumulator(st) ==
    explicit_tick(SetZN(SetFlag(SetReg(st, "a", rol(st.cpu.a, st.cpu.p)),
                                C, BitAnd(st.cpu.a, \h80) = \h80),
                        rol(st.cpu.a, st.cpu.p)))

rol_mem(r, operand) ==
    zn_write_back(SetFlag(r.st, C, BitAnd(r.v, \h80) = \h80),
                  operand, rol(r.v, r.st.cpu.p))

execute_ROR_Accumulator(st) ==
    explicit_tick(SetZN(SetFlag(SetReg(st, "a", ror(st.cpu.a, st.cpu.p)),
                                C, BitAnd(st.cpu.a, 1) = 1),
                        ror(st.cpu.a, st.cpu.p)))

ror_mem(r, operand) ==
    zn_write_back(SetFlag(r.st, C, BitAnd(r.v, 1) = 1),
                  operand, ror(r.v, r.st.cpu.p))

\* mutation of execute_JSR: the return address is pushed as it is
execute_JSR_pushing_pc(st, operand) ==
    explicit_tick(SetReg(push_stack_word(st, st.cpu.pc), "pc", operand))

execute_JSR(st, operand) ==
    explicit_tick(SetReg(push_stack_word(st, wrapping_sub16(st.cpu.pc, 1)),
                         "pc", operand))

\* mutation of branch_if: the branch taken whatever the flag
branch_if_always(st, taken, operand) == branch(st, operand)

\* if <flag predicate> { branch(nes, operand) }
branch_if(st, taken, operand) == IF taken THEN branch(st, operand) ELSE st

\* nes.cpu.p.insert(f) or nes.cpu.p.remove(f); T::tick(nes)
flag_op(st, f, b) == explicit_tick(SetFlag(st, f, b))

\* push_stack(nes, nes.cpu.p.bits())
push_status(st) == push_stack(st, st.cpu.p)

\* mutation of execute_BRK: the final T::tick is left out
execute_BRK_without_tick(st) ==
    load_pc(read_word(
        push_status(SetReg(push_stack_word(st, st.cpu.pc),
                           "p", insert(st.cpu.p, INSTRUCTION_B))),
        \hFFFE))

execute_BRK(st) ==
    explicit_tick(load_pc(read_word(
        push_status(SetReg(push_stack_word(st, st.cpu.pc),
                           "p", insert(st.cpu.p, INSTRUCTION_B))),
        \hFFFE)))

\* mutation of execute_RTI: the return address is pulled before the status
execute_RTI_address_first(st) ==
    explicit_tick_n(restore_status(pull_stack(load_pc(pull_stack_word(st)))), 2)

execute_RTI(st) ==
    explicit_tick_n(load_pc(pull_stack_word(restore_status(pull_stack(st)))), 2)

execute(st, instruction, operand) ==
    IF Faulted(st) THEN st ELSE
    CASE instruction.mnemonic = "LDA" -> load(read(st, operand), "a")
      [] instruction.mnemonic = "LDX" -> load(read(st, operand), "x")
      [] instruction.mnemonic = "LDY" -> load(read(st, operand), "y")
      [] instruction.mnemonic = "STA" -> write(st, operand, st.cpu.a)
      [] instruction.mnemonic = "STX" -> write(st, operand, st.cpu.x)
      [] instruction.mnemonic = "STY" -> write(st, operand, st.cpu.y)
      [] instruction.mnemonic = "TAX" -> register_op(st, "x", st.cpu.a)
      [] instruction.mnemonic = "TAY" -> register_op(st, "y", st.cpu.a)
      [] instruction.mnemonic = "TXA" -> register_op(st, "a", st.cpu.x)
      [] instruction.mnemonic = "TYA" -> register_op(st, "a", st.cpu.y)
      [] instruction.mnemonic = "TSX" -> register_op(st, "x", st.cpu.s)
      [] instruction.mnemonic = "TXS" -> explicit_tick(SetReg(st, "s", st.cpu.x))
      [] instruction.mnemonic = "PHA" -> explicit_tick(push_stack(st, st.cpu.a))
      [] instruction.mnemonic = "PHP" ->
            explicit_tick(push_stack(st, BitOr(st.cpu.p, INSTRUCTION_B)))
      [] instruction.mnemonic = "PLA" -> explicit_tick(load(pull_stack(st), "a"))
      [] instruction.mnemonic = "PLP" ->
            explicit_tick_n(restore_status(pull_stack(st)), 2)
      [] instruction.mnemonic = "AND" -> and_a(read(st, operand))
      [] instruction.mnemonic = "EOR" -> eor_a(read(st, operand))
      [] instruction.mnemonic = "ORA" -> ora_a(read(st, operand))
      [] instruction.mnemonic = "BIT" -> bit_test(read(st, operand))
      [] instruction.mnemonic = "ADC" -> adc(read(st, operand))
      [] instruction.mnemonic = "SBC" -> sbc(read(st, operand))
      [] instruction.mnemonic = "CMP" -> compare(read(st, operand), "a")
      [] instruction.mnemonic = "CPX" -> compare(read(st, operand), "x")
      [] instruction.mnemonic = "CPY" -> compare(read(st, operand), "y")
      [] instruction.mnemonic = "INC" -> inc_mem(read(st, operand), operand)
      [] instruction.mnemonic = "INX" ->
            register_op(st, "x", wrapping_add8(st.cpu.x, 1))
      [] instruction.mnemonic = "INY" ->
            register_op(st, "y", wrapping_add8(st.cpu.y, 1))
      [] instruction.mnemonic = "DEC" -> dec_mem(read(st, operand), operand)
      [] instruction.mnemonic = "DEX" ->
            register_op(st, "x", wrapping_sub8(st.cpu.x, 1))
      [] instruction.mnemonic = "DEY" ->
            register_op(st, "y", wrapping_sub8(st.cpu.y, 1))
      [] instruction.mnemonic = "ASL" /\ instruction.mode.name = "Accumulator" ->
            execute_ASL_Accumulator(st)
      [] instruction.mnemonic = "ASL" -> asl_mem(read(st, operand), operand)
      [] instruction.mnemonic = "LSR" /\ instruction.mode.name = "Accumulator" ->
            execute_LSR_Accumulator(st)
      [] instruction.mnemonic = "LSR" -> lsr_mem(read(st, operand), operand)
      [] instruction.mnemonic = "ROL" /\ instruction.mode.name = "Accumulator" ->
            execute_ROL_Accumulator(st)
      [] instruction.mnemonic = "ROL" -> rol_mem(read(st, operand), operand)
      [] instruction.mnemonic = "ROR" /\ instruction.mode.name = "Accumulator" ->
            execute_ROR_Accumulator(st)
      [] instruction.mnemonic = "ROR" -> ror_mem(read(st, operand), operand)
      [] instruction.mnemonic = "JMP" -> SetReg(st, "pc", operand)
      [] instruction.mnemonic = "JSR" -> execute_JSR(st, operand)
      [] instruction.mnemonic = "RTS" ->
            explicit_tick_n(load_pc(pull_stack_word(st)), 3)
      [] instruction.mnemonic = "BCC" -> branch_if(st, ~contains(st.cpu.p, C), operand)
      [] instruction.mnemonic = "BCS" -> branch_if(st, contains(st.cpu.p, C), operand)
      [] instruction.mnemonic = "BEQ" -> branch_if(st, contains(st.cpu.p, Z), operand)
      [] instruction.mnemonic = "BMI" -> branch_if(st, contains(st.cpu.p, N), operand)
      [] instruction.mnemonic = "BNE" -> branch_if(st, ~contains(st.cpu.p, Z), operand)
      [] instruction.mnemonic = "BPL" -> branch_if(st, ~contains(st.cpu.p, N), operand)
      [] instruction.mnemonic = "BVC" -> branch_if(st, ~contains(st.cpu.p, V), operand)
      [] instruction.mnemonic = "BVS" -> branch_if(st, contains(st.cpu.p, V), operand)
      [] instruction.mnemonic = "CLC" -> flag_op(st, C, FALSE)
      [] instruction.mnemonic = "CLD" -> flag_op(st, D, FALSE)
      [] instruction.mnemonic = "CLI" -> flag_op(st, I, FALSE)
      [] instruction.mnemonic = "CLV" -> flag_op(st, V, FALSE)
      [] instruction.mnemonic = "SEC" -> flag_op(st, C, TRUE)
      [] instruction.mnemonic = "SED" -> flag_op(st, D, TRUE)
      [] instruction.mnemonic = "SEI" -> flag_op(st, I, TRUE)
      [] instruction.mnemonic = "BRK" -> execute_BRK(st)
      [] instruction.mnemonic = "NOP" -> explicit_tick(st)
      [] instruction.mnemonic = "RTI" -> execute_RTI(st)
      [] OTHER -> Fail(st, "unimplemented")

-----------------------------------------------------------------------------
(* Step loop                                                               *)

\* ghost: what a call of cpu_step went through: the opcode fetched, the
\* instruction decoded, the call state after the fetch (fetched), after
\* get_operand (resolved) and after execute (done), and the operand.
step_execute(opcode, instruction, fetched, r) ==
    [opcode |-> opcode, instruction |-> instruction, fetched |-> fetched,
     resolved |-> r.st, done |-> execute(r.st, instruction, r.v),
     operand |-> r.v]

step_resolve(opcode, instruction, fetched) ==
    step_execute(opcode, instruction, fetched,
                 get_operand(fetched, instruction.mode))

step_decode(f) == step_resolve(f.v, decode(f.v), advance_pc(f.st, 1))

cpu_step_trace(st) == step_decode(read(st, st.cpu.pc))

cpu_step(st) == cpu_step_trace(st).done

-----------------------------------------------------------------------------
(* The ROM container parser (src/src/rom.rs).  parse reads the buffer      *)
(* through a cursor; a cursor is the sequence of bytes not yet consumed.   *)
(* A result is Ok((Header, Vec<u8>)) or Err(..): `?` on a failed           *)
(* read_exact returns the io error, the two validations return ParseError. *)

MAGIC == <<\h4E, \h45, \h53, \h1A>>

Err(msg) == [ok |-> FALSE, msg |-> msg]

\* cur.read_exact(&mut buf) with buf of n bytes: all n bytes, or an error
read_exact(cur, n) ==
    IF Len(cur) >= n
    THEN [ok |-> TRUE, buf |-> SubSeq(cur, 1, n), cur |-> SubSeq(cur, n + 1, Len(cur))]
    ELSE [ok |-> FALSE, buf |-> <<>>, cur |-> <<>>]

\* flag 6: if b & 1 == 0 { Horizontal } else { Vertical }
mirroring(b) == IF BitAnd(b, 1) = 0 THEN "Horizontal" ELSE "Vertical"

\* validate unused padding, then read_to_end and Ok((Header { .. }, buf))
validate_padding(header, r) ==
    IF ~r.ok THEN Err("UnexpectedEof")
    ELSE IF r.buf # <<0, 0, 0, 0>> THEN Err("invalid padding")
    ELSE [ok |-> TRUE, header |-> header, buf |-> r.cur]

\* skip flag 7, 8, 9, 10
skip_flags(header, r) ==
    IF ~r.ok THEN Err("UnexpectedEof")
    ELSE validate_padding(header, read_exact(r.cur, 4))

\* flag 6, the third of the three one-byte fields
read_mirroring(prg_rom_size, chr_rom_size, r) ==
    IF ~r.ok THEN Err("UnexpectedEof")
    ELSE skip_flags([prg_rom_size |-> prg_rom_size, chr_rom_size |-> chr_rom_size,
                     mirroring |-> mirroring(r.buf[1])],
                    read_exact(r.cur, 4))

read_chr_rom_size(prg_rom_size, r) ==
    IF ~r.ok THEN Err("UnexpectedEof")
    ELSE read_mirroring(prg_rom_size, r.buf[1], read_exact(r.cur, 1))

read_prg_rom_size(r) ==
    IF ~r.ok THEN Err("UnexpectedEof")
    ELSE read_chr_rom_size(r.buf[1], read_exact(r.cur, 1))

\* mutation of validate_magic: the signature is read and not compared
validate_magic_unchecked(r) ==
    IF ~r.ok THEN Err("UnexpectedEof")
    ELSE read_prg_rom_size(read_exact(r.cur, 1))

\* validate magic number
validate_magic(r) ==
    IF ~r.ok THEN Err("UnexpectedEof")
    ELSE IF r.buf # MAGIC THEN Err("invalid magic number")
    ELSE read_prg_rom_size(read_exact(r.cur, 1))

parse(rom_bytes) == validate_magic(read_exact(rom_bytes, 4))

-----------------------------------------------------------------------------
(* The state machine.  Init is a Nes as the tests build it: Nes::new(),    *)
(* then registers and wram cells assigned.  The only operation is cpu_step.*)

MaxSteps == 2

\* A set-up in progress: the wram assigned so far, and whether one of the
\* assignments has panicked.
SetUp(w) == [wram |-> w, fault |-> "none"]

\* nes.wram[at] = bytes[1]; nes.wram[at + 1] = bytes[2]; ... as a test
\* writes them: an assignment at or past WRAM_LEN panics (index out of
\* bounds), and nothing after a panic runs.
RECURSIVE Store(_, _, _)
Store(su, at, bytes) ==
    IF bytes = <<>> \/ su.fault # "none" THEN su
    ELSE IF at >= WRAM_LEN THEN [su EXCEPT !.fault = "index_out_of_bounds"]
    ELSE Store([su EXCEPT !.wram = WramSet(@, at, Head(bytes))],
               at + 1, Tail(bytes))

\* the bytes of a layout that wram has cells for, when it is laid out from
\* `at` on: a set-up assigns these and no others
Fitting(at, bytes) ==
    SubSeq(bytes, 1,
           IF at >= WRAM_LEN THEN 0
           ELSE IF at + Len(bytes) > WRAM_LEN THEN WRAM_LEN - at
           ELSE Len(bytes))

Snap(st) ==
    [cpu |-> st.cpu, cpu_cycles |-> st.cpu_cycles, fault |-> st.fault,
     explicit_ticks |-> st.explicit_ticks, accesses |-> Len(st.log)]

\* what a call starts from
PreCall ==
    [cpu |-> nes.cpu, wram |-> nes.wram, cpu_cycles |-> nes.cpu_cycles,
     explicit_ticks |-> explicit_ticks, storage_accesses |-> storage_accesses]

NoCall ==
    [call |-> "none", opcode |-> 0, instruction |-> Instruction("NOP", Implicit),
     operand |-> 0,
     pre |-> [cpu |-> CpuDefault, wram |-> EmptyWram, cpu_cycles |-> Zero128,
              explicit_ticks |-> 0, storage_accesses |-> 0],
     fetched |-> [cpu |-> CpuDefault, cpu_cycles |-> Zero128, fault |-> "none",
                  explicit_ticks |-> 0, accesses |-> 0],
     resolved |-> [cpu |-> CpuDefault, cpu_cycles |-> Zero128, fault |-> "none",
                   explicit_ticks |-> 0, accesses |-> 0]]

\* A fresh Nes (clock 0) with registers and wram set, and the buffer `image`
\* at hand
Loaded(b, oc, cpu, wram, image) ==
    /\ nes = [cpu |-> cpu, wram |-> wram, cpu_cycles |-> Zero128]
    /\ bus = b
    /\ overflow_checks = oc
    /\ fault = "none"
    /\ storage_accesses = 0
    /\ explicit_ticks = 0
    /\ log = <<>>
    /\ last = NoCall
    /\ previous = NoCall
    /\ rom = image
    /\ steps = 0

\* The state a test hands to cpu_step: a fresh Nes with registers and wram
\* set, by a set-up that did not panic; the clock is the 0 of Nes::new(),
\* which nothing but tick and tick_n assigns
Start(b, oc, cpu, su) ==
    /\ su.fault = "none"
    /\ Loaded(b, oc, cpu, su.wram, <<>>)

\* the call state st of a call made now
CallState ==
    [cpu |-> nes.cpu, wram |-> nes.wram, cpu_cycles |-> nes.cpu_cycles,
     bus |-> bus, overflow_checks |-> overflow_checks, fault |-> fault,
     storage_accesses |-> storage_accesses, explicit_ticks |-> explicit_ticks,
     log |-> <<>>]

\* the variables after a call of cpu_step that went through t
Returned(t) ==
    /\ nes' = [cpu |-> t.done.cpu, wram |-> t.done.wram,
               cpu_cycles |-> t.done.cpu_cycles]
    /\ fault' = t.done.fault
    /\ storage_accesses' = t.done.storage_accesses
    /\ explicit_ticks' = t.done.explicit_ticks
    /\ log' = t.done.log
    /\ last' = [call |-> "cpu_step", opcode |-> t.opcode,
                instruction |-> t.instruction, operand |-> t.operand,
                pre |-> PreCall, fetched |-> Snap(t.fetched),
                resolved |-> Snap(t.resolved)]
    /\ previous' = last

\* Emu::cpu_step::<B, T>(&mut nes)
CpuStep ==
    /\ fault = "none"
    /\ steps < MaxSteps
    /\ Returned(cpu_step_trace(CallState))
    /\ steps' = steps + 1
    /\ UNCHANGED <<bus, overflow_checks, rom>>

Next == CpuStep

-----------------------------------------------------------------------------
(* Spec: every opcode byte, on each storage and build, from two register   *)
(* files and two program counters (one of them at the end of wram).        *)

\* wram cells every run starts with, besides the program at pc
DataImage ==
    [i \in {\h0010, \h0011, \h00FF, \h0200, \h02FF, \h0300, \h0310, \h0311} |->
        CASE i = \h0010 -> \hFF
          [] i = \h0011 -> \h02
          [] i = \h00FF -> \h80
          [] i = \h0200 -> \h04
          [] i = \h02FF -> \h34
          [] i = \h0300 -> \h06
          [] i = \h0310 -> \h9F
          [] i = \h0311 -> \h01]

StartPCs == {\h020F, \h07FD}

OperandBytes == {<<\h10, \h03>>, <<\hFF, \h02>>, <<\hFF, \hFF>>}

\* INC $0310, placed after the two operand bytes
NextInstruction == <<\hEE, \h10, \h03>>

RegisterFiles ==
    {[a |-> \h50, x |-> \h93, y |-> \hF0, s |-> \hFD, p |-> 0],
     [a |-> \h00, x |-> \h01, y |-> \h31, s |-> \h00, p |-> \hC3]}

Init ==
    \E b \in Buses, oc \in BOOLEAN, pc \in StartPCs, opcode \in Byte,
       ob \in OperandBytes, rf \in RegisterFiles :
        Start(b, oc, rf @@ [pc |-> pc],
              Store(SetUp(DataImage), pc,
                    Fitting(pc, <<opcode>> \o ob \o NextInstruction)))

Spec == Init /\ [][Next]_vars

-----------------------------------------------------------------------------
(* Specifications for the arithmetic claims, laid out as the repository's  *)
(* `arithmetic` test lays them out: an absolute-mode instruction at 0x020F *)
(* whose operand byte is at 0x04D3, on CpuBusMock.                         *)

\* the register file with register reg holding r and the other two of a, x, y
\* holding the complement of r
RegistersWith(reg, r, p) ==
    [[a |-> 255 - r, x |-> 255 - r, y |-> 255 - r, s |-> \hFD, p |-> p,
      pc |-> \h020F] EXCEPT ![reg] = r]

ArithmeticImage(opcode, m) ==
    Store(Store(SetUp(EmptyWram), \h020F, <<opcode, \hD3, \h04>>), \h04D3, <<m>>)

\* operand and register values of the compare and subtract runs: the values
\* of the repository's `arithmetic` test, equal pairs, and the 8-bit extremes
ArithmeticSamples ==
    {\h00, \h01, \h10, \h36, \h37, \h50, \h7F, \h80, \h81, \h90, \hD0, \hFF}

\* CMP, CPX, CPY absolute
CompareOpcodes == {\hCD, \hEC, \hCC}

CompareRegister(mnemonic) ==
    CASE mnemonic = "CMP" -> "a"
      [] mnemonic = "CPX" -> "x"
      [] mnemonic = "CPY" -> "y"

InitCompare ==
    \E opcode \in CompareOpcodes, r \in ArithmeticSamples, m \in ArithmeticSamples,
       p \in {\h00, \hC3} :
        Start("CpuBusMock", TRUE,
              RegistersWith(CompareRegister(decode(opcode).mnemonic), r, p),
              ArithmeticImage(opcode, m))

SpecCompare == InitCompare /\ [][Next]_vars

\* status bytes the arithmetic runs start from: carry clear or set, with the
\* flags the instruction derives (Z, V, N) all clear or all set
ArithmeticStatus == {\h00, \h01, \hC2, \hC3}

\* ADC absolute: every accumulator value and every operand byte
InitADC ==
    \E a \in Byte, m \in Byte, p \in ArithmeticStatus :
        Start("CpuBusMock", TRUE, RegistersWith("a", a, p), ArithmeticImage(\h6D, m))

SpecADC == InitADC /\ [][Next]_vars

\* SBC absolute
InitSBC ==
    \E a \in ArithmeticSamples, m \in ArithmeticSamples, p \in ArithmeticStatus :
        Start("CpuBusMock", TRUE, RegistersWith("a", a, p), ArithmeticImage(\hED, m))

SpecSBC == InitSBC /\ [][Next]_vars

-----------------------------------------------------------------------------
(* Specifications for the addressing-mode claims                           *)

\* LDA zp,X and LDX zp,Y: every base byte and every index
InitZeroPageIndexed ==
    \E opcode \in {\hB5, \hB6}, base \in Byte, index \in Byte :
        Start("CpuBusMock", TRUE,
              RegistersWith(IF opcode = \hB5 THEN "x" ELSE "y", index, 0),
              Store(SetUp(EmptyWram), \h020F, <<opcode, base>>))

SpecZeroPageIndexed == InitZeroPageIndexed /\ [][Next]_vars

HighBytes == {\h00, \h03, \h07, \hF0, \hFF}

IndexSamples ==
    {\h00, \h01, \h0F, \h10, \h31, \h7F, \h80, \h93, \hCA, \hF0, \hFE, \hFF}

\* LDA abs,X / STA abs,X / LDA abs,Y / STA abs,Y on the address-space router
InitAbsoluteIndexed ==
    \E opcode \in {\hBD, \h9D, \hB9, \h99}, lo \in Byte, hi \in HighBytes,
       index \in IndexSamples :
        Start("Bus", TRUE,
              RegistersWith(IF opcode \in {\hBD, \h9D} THEN "x" ELSE "y", index, 0),
              Store(SetUp(EmptyWram), \h020F, <<opcode, lo, hi>>))

SpecAbsoluteIndexed == InitAbsoluteIndexed /\ [][Next]_vars

\* (addr & 0xFF00) | ((addr + 1) & 0x00FF), as the 6502 computes it
SamePageNext(addr) == (addr \div 256) * 256 + ((addr + 1) % 256)

Pointers ==
    {\h0010, \h00FF, \h01FF, \h02FF, \h0310, \h06FF, \h07FE, \h0800, \h20FF,
     \hFFFF}

ByteSamples == {\h00, \h01, \h04, \h34, \h7F, \h80, \h9F, \hFF}

\* JMP (P) on the address-space router: the cell at P, the cell the high
\* byte is documented to come from, and the cell after P each hold a byte
InitIndirect ==
    \E oc \in BOOLEAN, P \in Pointers, low \in ByteSamples, high \in ByteSamples,
       after \in {\h00, \h06} :
        Start("Bus", oc, RegistersWith("a", 0, 0),
              Store(Store(Store(Store(SetUp(EmptyWram), \h020F,
                                      <<\h6C, P % 256, P \div 256>>),
                                (P + 1) % U16, Fitting((P + 1) % U16, <<after>>)),
                          SamePageNext(P), Fitting(SamePageNext(P), <<high>>)),
                    P, Fitting(P, <<low>>)))

SpecIndirect == InitIndirect /\ [][Next]_vars

-----------------------------------------------------------------------------
(* Specification for the status push/pull claim: PHP then PLP at 0x020F,   *)
(* and PLP alone pulling a byte the test placed on the stack.  push_stack  *)
(* and pull_stack address storage with the stack pointer itself            *)
(* (nes.cpu.s as u16), so the stack cells are wram[0x00 ..= 0xFF].         *)

StackPointers == {\h00, \h01, \hBF, \hFD, \hFF}

StackRegisters(s, p) == [a |-> \h72, x |-> 0, y |-> 0, s |-> s, p |-> p, pc |-> \h020F]

InitStatusStack ==
    \E b \in {"CpuBusMock", "Bus"}, s \in StackPointers, v \in Byte :
        \/ Start(b, TRUE, StackRegisters(s, v),
                 Store(SetUp(EmptyWram), \h020F, <<\h08, \h28>>))
        \/ \E p \in {\h00, \hCF} :
            Start(b, TRUE, StackRegisters(s, p),
                  Store(Store(SetUp(EmptyWram), \h020F, <<\h28>>), (s + 1) % U8, <<v>>))

SpecStatusStack == InitStatusStack /\ [][Next]_vars

-----------------------------------------------------------------------------
(* Specification for the claims about a core started from power-on: the    *)
(* registers of Cpu::default() (status empty) with pc and s set, and any   *)
(* opcode at pc.                                                           *)

InitPowerOn ==
    \E b \in Buses, opcode \in Byte, ob \in OperandBytes, s \in {\h00, \hFD} :
        Start(b, TRUE, [CpuDefault EXCEPT !.pc = \h020F, !.s = s],
              Store(SetUp(DataImage), \h020F, <<opcode>> \o ob \o NextInstruction))

SpecPowerOn == InitPowerOn /\ [][Next]_vars

-----------------------------------------------------------------------------
(* Specification for the BRK claim: BRK at P on each storage (the vector   *)
(* cells 0xFFFE/0xFFFF hold 0x23/0x40 on CpuBusMockForBRK, read as 0 on    *)
(* the address-space router and are out of bounds on CpuBusMock), with any *)
(* status byte, P below a page boundary included.                          *)

BreakPCs == {\h020F, \h02FF, \h07FD}

InitBRK ==
    \E b \in Buses, P \in BreakPCs, s \in StackPointers, p \in Byte :
        Start(b, TRUE, [StackRegisters(s, p) EXCEPT !.pc = P],
              Store(SetUp(EmptyWram), P, <<\h00>>))

SpecBRK == InitBRK /\ [][Next]_vars

-----------------------------------------------------------------------------
(* Specification for the branch claims, laid out as the repository's       *)
(* `branches` test: a branch instruction at P with displacement byte d,    *)
(* for each of the eight branch opcodes and every d.                       *)

\* BPL, BMI, BVC, BVS, BCC, BCS, BNE, BEQ
BranchOpcodes == {\h10, \h30, \h50, \h70, \h90, \hB0, \hD0, \hF0}

BranchPCs == {\h0031, \h020F, \h02FD, \h0380}

\* N|C and N|V as in the test, nothing set, and everything a branch tests set
BranchStatus == {\h81, \hC0, \h00, \hC3}

InitBranch ==
    \E b \in {"CpuBusMock", "Bus"}, opcode \in BranchOpcodes, d \in Byte,
       P \in BranchPCs, p \in BranchStatus :
        Start(b, TRUE, [StackRegisters(\hFD, p) EXCEPT !.pc = P],
              Store(SetUp(EmptyWram), P, <<opcode, d>>))

SpecBranch == InitBranch /\ [][Next]_vars

-----------------------------------------------------------------------------
(* Specification for the call/return claim, laid out as the repository's   *)
(* `calls` test: JSR T at P, and RTS as the instruction at T.              *)

CallPCs == {\h020F, \h02FD}

Subroutines == {\h0300, \h0431, \h07F0}

InitCall ==
    \E b \in {"CpuBusMock", "Bus"}, P \in CallPCs, T \in Subroutines,
       s \in StackPointers, p \in {\h00, \hC3} :
        Start(b, TRUE, [StackRegisters(s, p) EXCEPT !.pc = P],
              Store(Store(SetUp(EmptyWram), P, <<\h20, T % 256, T \div 256>>),
                    T, <<\h60>>))

SpecCall == InitCall /\ [][Next]_vars

-----------------------------------------------------------------------------
(* Specification for the address-space router claim: Bus::read and         *)
(* Bus::write called directly on a fresh Nes, at addresses on both sides   *)
(* of every boundary of the memory map.                                    *)

RouterAddresses ==
    {\h0000, \h0001, \h00FF, \h07FE, \h07FF, \h0800, \h1FFF, \h2000, \h4016,
     \hFFFF}

RouterValues == {\h00, \h5A, \hFF}

InitRouter == Start("Bus", TRUE, CpuDefault, SetUp(EmptyWram))

\* the variables after a direct call of the router that left the call state
\* st, having been given (write) or having returned (read) the byte value
RouterReturned(call, addr, value, st) ==
    /\ nes' = [nes EXCEPT !.wram = st.wram]
    /\ fault' = st.fault
    /\ last' = [call |-> call, addr |-> addr, value |-> value, pre |-> PreCall]
    /\ previous' = last
    /\ steps' = steps + 1
    /\ UNCHANGED <<bus, overflow_checks, storage_accesses, explicit_ticks, log,
                   rom>>

\* Bus::read(&mut nes, addr)
BusRead ==
    /\ fault = "none"
    /\ steps < MaxSteps
    /\ \E addr \in RouterAddresses :
        RouterReturned("Bus::read", addr, Bus_read(CallState, addr).v,
                       Bus_read(CallState, addr).st)

\* Bus::write(&mut nes, addr, value)
BusWrite ==
    /\ fault = "none"
    /\ steps < MaxSteps
    /\ \E addr \in RouterAddresses, value \in RouterValues :
        RouterReturned("Bus::write", addr, value, Bus_write(CallState, addr, value))

NextRouter == BusRead \/ BusWrite

SpecRouter == InitRouter /\ [][NextRouter]_vars

-----------------------------------------------------------------------------
(* Specification for the Decimal-flag claim: ADC and SBC, absolute and     *)
(* immediate, from status bytes with D clear and with D set.               *)

\* ADC abs, SBC abs, ADC #, SBC #
DecimalOpcodes == {\h6D, \hED, \h69, \hE9}

DecimalStatus == {\h00, \h01, \h08, \h09, \hC3, \hCB}

DecimalOperands == ArithmeticSamples \cup {\h09, \h99}

\* the operand byte m is the immediate byte, or the byte at 0x04D3
InitDecimal ==
    \E opcode \in DecimalOpcodes, a \in Byte, m \in DecimalOperands,
       p \in DecimalStatus :
        Start("CpuBusMock", TRUE, RegistersWith("a", a, p),
              IF opcode \in {\h69, \hE9}
              THEN Store(SetUp(EmptyWram), \h020F, <<opcode, m>>)
              ELSE ArithmeticImage(opcode, m))

SpecDecimal == InitDecimal /\ [][Next]_vars

-----------------------------------------------------------------------------
(* Specification for the ROM container parser claim: parse applied to      *)
(* buffers made of a signature, the three one-byte fields, flags 7..10, a  *)
(* padding region and a payload, each well-formed or damaged, and cut      *)
(* short at every length.                                                  *)

Signatures ==
    {MAGIC, <<\h4F, \h45, \h53, \h1A>>, <<\h4E, \h00, \h53, \h1A>>,
     <<\h4E, \h45, \h73, \h1A>>, <<\h4E, \h45, \h53, \h00>>}

Paddings ==
    {<<0, 0, 0, 0>>, <<1, 0, 0, 0>>, <<0, \h80, 0, 0>>, <<0, 0, \hFF, 0>>,
     <<0, 0, 0, 1>>}

Payloads == {<<>>, <<\hAA>>, <<\h00, \hBB>>}

RomImage(signature, prg, chr, flag6, flags, padding, payload) ==
    signature \o <<prg, chr, flag6>> \o flags \o padding \o payload

InitRom ==
    \E signature \in Signatures, prg \in {1, 2}, chr \in {0, 1},
       flag6 \in {\h00, \h01}, flags \in {<<0, 0, 0, 0>>, <<8, 0, 0, 7>>},
       padding \in Paddings, payload \in Payloads :
        \E n \in 0 .. 15 + Len(payload) :
            Loaded("Bus", TRUE, CpuDefault, EmptyWram,
                   SubSeq(RomImage(signature, prg, chr, flag6, flags, padding,
                                   payload), 1, n))

\* rom::parse(&rom)
ParseRom ==
    /\ fault = "none"
    /\ steps < MaxSteps
    /\ last' = [call |-> "parse", result |-> parse(rom), pre |-> PreCall]
    /\ previous' = last
    /\ steps' = steps + 1
    /\ UNCHANGED <<nes, bus, overflow_checks, fault, storage_accesses,
                   explicit_ticks, log, rom>>

NextRom == ParseRom

SpecRom == InitRom /\ [][NextRom]_vars

-----------------------------------------------------------------------------
(* Specification for the shift/rotate claim: ASL, LSR, ROL and ROR in      *)
(* accumulator form and in zero-page form on the cell 0x0010, for every    *)
(* input byte, with carry clear and set.                                   *)

\* ASL A, LSR A, ROL A, ROR A; ASL zp, LSR zp, ROL zp, ROR zp
ShiftOpcodes == {\h0A, \h4A, \h2A, \h6A, \h06, \h46, \h26, \h66}

InitShift ==
    \E opcode \in ShiftOpcodes, v \in Byte, p \in ArithmeticStatus :
        Start("CpuBusMock", TRUE,
              [StackRegisters(\hFD, p) EXCEPT !.a = v],
              Store(Store(SetUp(EmptyWram), \h020F, <<opcode, \h10>>), \h0010, <<v>>))

SpecShift == InitShift /\ [][Next]_vars

-----------------------------------------------------------------------------
(* Specification for the RTI claim, laid out as the repository's test: RTI *)
(* at 0x020F with a status byte and a return address on the stack.         *)

\* empty, V|D|C|I as in the test, and every bit set
StatusBeforeReturn == {\h00, \h4D, \hFF}

InitRTI ==
    \E b \in {"CpuBusMock", "Bus"}, s \in StackPointers, v \in Byte,
       low \in {\h11, \hFF}, high \in {\h00, \h02}, p \in StatusBeforeReturn :
        Start(b, TRUE, StackRegisters(s, p),
              Store(Store(Store(Store(SetUp(EmptyWram), \h020F, <<\h40>>),
                                (s + 1) % U8, <<v>>),
                          (s + 2) % U8, <<low>>),
                    (s + 3) % U8, <<high>>))

SpecRTI == InitRTI /\ [][Next]_vars

-----------------------------------------------------------------------------
(* Specification for the stack-discipline claim: the four stack helpers of *)
(* src/src/cpu.rs called directly, in any order, from every stack pointer. *)

StackBytes == {\h00, \h72, \hFF}

StackWords == {\h0211, \h00FF, \hFF00, \h1234}

InitStack ==
    \E b \in {"CpuBusMock", "Bus"}, s \in Byte :
        Start(b, TRUE, StackRegisters(s, 0), SetUp(EmptyWram))

\* the variables after a direct call of a stack helper that was given arg,
\* returned result and left the call state st
StackReturned(call, arg, result, st) ==
    /\ nes' = [cpu |-> st.cpu, wram |-> st.wram, cpu_cycles |-> st.cpu_cycles]
    /\ fault' = st.fault
    /\ storage_accesses' = st.storage_accesses
    /\ explicit_ticks' = st.explicit_ticks
    /\ log' = st.log
    /\ last' = [call |-> call, arg |-> arg, result |-> result, pre |-> PreCall]
    /\ previous' = last
    /\ steps' = steps + 1
    /\ UNCHANGED <<bus, overflow_checks, rom>>

\* push_stack::<B, T>(nes, v)
PushStack ==
    /\ fault = "none"
    /\ steps < MaxSteps
    /\ \E v \in StackBytes :
        StackReturned("push_stack", v, 0, push_stack(CallState, v))

\* pull_stack::<B, T>(nes)
PullStack ==
    /\ fault = "none"
    /\ steps < MaxSteps
    /\ StackReturned("pull_stack", 0, pull_stack(CallState).v,
                     pull_stack(CallState).st)

\* push_stack_word::<B, T>(nes, v)
PushStackWord ==
    /\ fault = "none"
    /\ steps < MaxSteps
    /\ \E v \in StackWords :
        StackReturned("push_stack_word", v, 0, push_stack_word(CallState, v))

\* pull_stack_word::<B, T>(nes)
PullStackWord ==
    /\ fault = "none"
    /\ steps < MaxSteps
    /\ StackReturned("pull_stack_word", 0, pull_stack_word(CallState).v,
                     pull_stack_word(CallState).st)

NextStack == PushStack \/ PullStack \/ PushStackWord \/ PullStackWord

SpecStack == InitStack /\ [][NextStack]_vars

-----------------------------------------------------------------------------
(* Specification for the claims about pointers in page zero: LDA (zp,X),   *)
(* LDA (zp),Y and JMP (P) with P in page zero, laid out as the             *)
(* repository's `indexed_indirect` and `indirect_indexed` tests lay them   *)
(* out, with a byte in each cell the pointer's high byte could come from.  *)

PointerBases == {\h00, \h10, \h85, \hF0, \hFE, \hFF}

PointerHighBytes == {\h00, \h02, \h07, \h90, \hFF}

PointerOpcodes == {\hA1, \hB1, \h6C}

\* the address in page zero the instruction takes its pointer from
PointerOf(opcode, base, index) ==
    IF opcode = \hA1 THEN wrapping_add8(base, index) ELSE base

InitPointer ==
    \E b \in {"CpuBusMock", "Bus"}, oc \in BOOLEAN, opcode \in PointerOpcodes,
       base \in PointerBases, index \in IndexSamples, low \in ByteSamples,
       high \in PointerHighBytes, after \in {\h00, \h06} :
        Start(b, oc,
              RegistersWith(IF opcode = \hA1 THEN "x" ELSE "y", index, 0),
              Store(Store(Store(Store(SetUp(EmptyWram), \h020F, <<opcode, base, 0>>),
                                PointerOf(opcode, base, index) + 1, <<after>>),
                          SamePageNext(PointerOf(opcode, base, index)), <<high>>),
                    PointerOf(opcode, base, index), <<low>>))

SpecPointer == InitPointer /\ [][Next]_vars

-----------------------------------------------------------------------------
(* Specification for the claim about the Zero and Negative flags of loads, *)
(* transfers, increments and logical operations, laid out as the           *)
(* repository's load_store_operations, register_transfers, stack_operations*)
(* and logical tests: one instruction at 0x020F, its immediate byte after  *)
(* it, and the same byte in the stack cell PLA pulls.                      *)

\* LDA # LDX # LDY #, TAX TAY TXA TYA TSX, PLA, INX INY DEX DEY, AND # ORA #
\* EOR #, TXS
LoadOpcodes ==
    {\hA9, \hA2, \hA0, \hAA, \hA8, \h8A, \h98, \hBA, \h68, \hE8, \hC8, \hCA,
     \h88, \h29, \h09, \h49, \h9A}

LoadBytes == {\h00, \h01, \h7F, \h80, \hFF}

\* nothing set; everything set; C, I, D, V with Z and N clear; Z, N alone
LoadStatus == {\h00, \hFF, \h4D, \h82}

InitLoad ==
    \E opcode \in LoadOpcodes, m \in LoadBytes, a \in LoadBytes,
       x \in {\h00, \h01, \h80, \hFF}, y \in {\h00, \h7F, \hFF},
       s \in {\h00, \h80, \hFD}, p \in LoadStatus :
        Start("CpuBusMock", TRUE,
              [a |-> a, x |-> x, y |-> y, s |-> s, p |-> p, pc |-> \h020F],
              Store(Store(SetUp(EmptyWram), \h020F, <<opcode, m>>), (s + 1) % U8, <<m>>))

SpecLoad == InitLoad /\ [][Next]_vars

-----------------------------------------------------------------------------
(* Specification for the BRK / RTI round trip: BRK at P on the             *)
(* address-space router, where the vector cells 0xFFFE/0xFFFF read as 0,   *)
(* so the handler starts at 0x0000, and RTI is the byte there.  The stack  *)
(* cells are in the same page, so a stack pointer of 0, 1 or 2 makes BRK   *)
(* push over the handler's first byte.                                     *)

InterruptPCs == {\h020F, \h023F, \h02FF, \h07FD}

InterruptStackPointers == StackPointers \cup {\h02, \h03}

InitInterrupt ==
    \E oc \in BOOLEAN, P \in InterruptPCs, s \in InterruptStackPointers,
       p \in Byte :
        Start("Bus", oc, [StackRegisters(s, p) EXCEPT !.pc = P],
              Store(Store(SetUp(EmptyWram), \h0000, <<\h40>>), P, <<\h00>>))

SpecInterrupt == InitInterrupt /\ [][Next]_vars

-----------------------------------------------------------------------------
(* Specification for the rotate round trip: ROL A then ROR A, or ROR A     *)
(* then ROL A, at 0x020F, for every accumulator value and status bytes     *)
(* with the carry clear and set.                                           *)

RotatePairs == {<<\h2A, \h6A>>, <<\h6A, \h2A>>}

InitRotate ==
    \E pair \in RotatePairs, v \in Byte, p \in ArithmeticStatus \cup {\h80, \hFF} :
        Start("CpuBusMock", TRUE,
              [StackRegisters(\hFD, p) EXCEPT !.a = v],
              Store(SetUp(EmptyWram), \h020F, pair))

SpecRotate == InitRotate /\ [][Next]_vars

-----------------------------------------------------------------------------
(* Vocabulary of the properties                                            *)

Stepped == last.call = "cpu_step"

\* the latest call of cpu_step returned
Completed == Stepped /\ fault = "none"

\* get_operand returned in the latest call
Resolved == Stepped /\ last.resolved.fault = "none"

Flag(f) == contains(nes.cpu.p, f)

\* the ticks from one clock count to a later one, the wrap at 2^128 taken
\* into account; 2^16 stands for any number of ticks from 2^16 up
Ticks(from, to) ==
    IF Tail(wrapping_sub128(to, from)) = Tail(Zero128)
    THEN Head(wrapping_sub128(to, from))
    ELSE U16

\* what the latest call cost
StepTicks == Ticks(last.pre.cpu_cycles, nes.cpu_cycles)

\* what get_operand cost and how far it moved pc
ResolverTicks == Ticks(last.fetched.cpu_cycles, last.resolved.cpu_cycles)

ResolverPcAdvance == wrapping_sub16(last.resolved.cpu.pc, last.fetched.cpu.pc)

\* The byte storage b holds at addr when its wram is w, read off the
\* documented memory map (no cell at or past WRAM_LEN is ever read back)
StorageByte(b, w, addr) ==
    IF b = "CpuBusMockForBRK" /\ addr = \hFFFE THEN \h23
    ELSE IF b = "CpuBusMockForBRK" /\ addr = \hFFFF THEN \h40
    ELSE IF addr < WRAM_LEN THEN WramGet(w, addr)
    ELSE 0

\* the byte at addr before the latest call
ByteBefore(addr) == StorageByte(bus, last.pre.wram, addr % U16)

\* the little-endian word in the instruction stream after the opcode
StreamWord == ByteBefore(last.fetched.cpu.pc) + 256 * ByteBefore(last.fetched.cpu.pc + 1)

\* Replaying the accesses over the wram w the call started from: each read
\* returned the byte storage held at that moment, and the bytes written, in
\* order, turn w into the wram the call left
RECURSIVE PassedThrough(_, _)
PassedThrough(w, accesses) ==
    IF accesses = <<>> THEN w = nes.wram
    ELSE IF Head(accesses).op = "read"
    THEN /\ Head(accesses).value = StorageByte(bus, w, Head(accesses).addr)
         /\ PassedThrough(w, Tail(accesses))
    ELSE PassedThrough(IF Head(accesses).addr < WRAM_LEN
                       THEN WramSet(w, Head(accesses).addr, Head(accesses).value)
                       ELSE w,
                       Tail(accesses))

Signed(v) == IF v >= 128 THEN v - 256 ELSE v

CarryIn == IF contains(last.pre.cpu.p, C) THEN 1 ELSE 0

\* The 151 opcodes of the documented 6502 instruction set
DocumentedOpcodes ==
    {\h69, \h65, \h75, \h6D, \h7D, \h79, \h61, \h71,
     \h29, \h25, \h35, \h2D, \h3D, \h39, \h21, \h31,
     \h0A, \h06, \h16, \h0E, \h1E,
     \h90, \hB0, \hF0, \h24, \h2C, \h30, \hD0, \h10, \h00, \h50, \h70,
     \h18, \hD8, \h58, \hB8,
     \hC9, \hC5, \hD5, \hCD, \hDD, \hD9, \hC1, \hD1,
     \hE0, \hE4, \hEC, \hC0, \hC4, \hCC,
     \hC6, \hD6, \hCE, \hDE, \hCA, \h88,
     \h49, \h45, \h55, \h4D, \h5D, \h59, \h41, \h51,
     \hE6, \hF6, \hEE, \hFE, \hE8, \hC8,
     \h4C, \h6C, \h20,
     \hA9, \hA5, \hB5, \hAD, \hBD, \hB9, \hA1, \hB1,
     \hA2, \hA6, \hB6, \hAE, \hBE,
     \hA0, \hA4, \hB4, \hAC, \hBC,
     \h4A, \h46, \h56, \h4E, \h5E,
     \hEA,
     \h09, \h05, \h15, \h0D, \h1D, \h19, \h01, \h11,
     \h48, \h08, \h68, \h28,
     \h2A, \h26, \h36, \h2E, \h3E,
     \h6A, \h66, \h76, \h6E, \h7E,
     \h40, \h60,
     \hE9, \hE5, \hF5, \hED, \hFD, \hF9, \hE1, \hF1,
     \h38, \hF8, \h78,
     \h85, \h95, \h8D, \h9D, \h99, \h81, \h91,
     \h86, \h96, \h8E, \h84, \h94, \h8C,
     \hAA, \hA8, \hBA, \h8A, \h9A, \h98}

-----------------------------------------------------------------------------
(* C1 .. C10                                                               *)

\* C1: every access through the adapter that returns advances the clock by
\* exactly one tick and passes the storage byte through unchanged (a read
\* returns what storage holds, a write stores what it was given), so the
\* clock count equals the storage accesses made plus the explicit ticks
\* issued, in total and within the latest call.
C1_AdapterTicksAndPassesThrough ==
    /\ nes.cpu_cycles = U128(storage_accesses + explicit_ticks)
    /\ \A i \in 1 .. Len(log) :
          log[i].clock_after = wrapping_add128(log[i].clock_before, 1)
    /\ Stepped =>
        /\ PassedThrough(last.pre.wram, log)
        /\ storage_accesses - last.pre.storage_accesses = Len(log)
        /\ Ticks(last.pre.cpu_cycles, nes.cpu_cycles)
             = Len(log) + (explicit_ticks - last.pre.explicit_ticks)

\* C1 witness: a second call that returned after reads, a write of a
\* non-zero byte and an explicit tick (INC on a memory cell)
C1_Witness ==
    /\ Completed
    /\ steps = 2
    /\ last.instruction.mnemonic = "INC"
    /\ \E i \in 1 .. Len(log) : log[i].op = "read" /\ log[i].value # 0
    /\ \E i \in 1 .. Len(log) : log[i].op = "write" /\ log[i].value # 0
    /\ explicit_ticks > last.pre.explicit_ticks

\* C2: over any sequence of cpu_step calls the clock count never decreases,
\* and every call that returns leaves it strictly greater than it found it.
C2_ClockMonotonic ==
    [][/\ ~Less128(nes'.cpu_cycles, nes.cpu_cycles)
       /\ fault' = "none" => Less128(nes.cpu_cycles, nes'.cpu_cycles)]_vars

\* C2 witness: two calls in a row returned, each having advanced the clock
C2_Witness ==
    /\ Completed
    /\ steps = 2
    /\ Less128(Zero128, last.pre.cpu_cycles)
    /\ Less128(last.pre.cpu_cycles, nes.cpu_cycles)

\* C3: decode is total and depends on the opcode byte alone: whatever the
\* registers, memory, storage and clock, the pair a step works with is a
\* (Mnemonic, AddressingMode) pair, it is the pair decode gives for the byte,
\* and for a byte outside the documented opcode set it is (NOP, Implicit).
C3_DecodeTotalWithFallback ==
    Stepped =>
        /\ last.instruction \in [mnemonic : Mnemonic, mode : AddressingMode]
        /\ last.instruction = decode(last.opcode)
        /\ last.opcode \notin DocumentedOpcodes
             => last.instruction = Instruction("NOP", Implicit)

\* C3 witness: an undocumented byte (0xFF) decoded to (NOP, Implicit) in a
\* second call, from registers that are not the power-on ones
C3_Witness ==
    /\ Stepped
    /\ steps = 2
    /\ last.opcode = \hFF
    /\ last.opcode \notin DocumentedOpcodes
    /\ last.instruction = Instruction("NOP", Implicit)
    /\ last.pre.cpu.a # 0

\* C4: cpu_step never reaches the executor's fatal fallback, and decode
\* never returns an unofficial operation identifier.
C4_NoFatalFallback ==
    /\ fault # "unimplemented"
    /\ Stepped => last.instruction.mnemonic \notin Unofficial

\* C4 witness: the byte 0xA7 (LAX zero page on the hardware) went through
\* decode and the executor, and the call returned
C4_Witness ==
    /\ Completed
    /\ last.opcode = \hA7
    /\ last.instruction.mnemonic \notin Unofficial
    /\ StepTicks = 2

\* C5 (as the specification states it): after CMP, CPX or CPY of register
\* value r with operand byte m, Carry is set iff r >= m, Zero is set iff
\* r = m, and Negative is bit 7 of (r - m) mod 256.
C5_CompareFlags ==
    (Completed /\ last.instruction.mnemonic \in {"CMP", "CPX", "CPY"}) =>
        LET r == last.pre.cpu[CompareRegister(last.instruction.mnemonic)]
            m == ByteBefore(last.operand)
        IN  /\ Flag(C) <=> r >= m
            /\ Flag(Z) <=> r = m
            /\ Flag(N) <=> ((r - m + U8) % U8) >= 128

\* C5 witness: a compare of equal values that returned with Zero set and
\* Carry clear
C5_EqualClearsCarry ==
    /\ Completed
    /\ last.instruction.mnemonic = "CMP"
    /\ last.pre.cpu.a = \h37
    /\ ByteBefore(last.operand) = \h37
    /\ Flag(Z)
    /\ ~Flag(C)

\* C6: ADC leaves A = (A + M + c) mod 256, Carry set iff A + M + c > 255,
\* Overflow set iff the signed sum of A, M and c lies outside -128..127,
\* Zero iff the result is 0 and Negative iff its bit 7 is set.
C6_ADC ==
    (Completed /\ last.instruction.mnemonic = "ADC") =>
        LET a == last.pre.cpu.a
            m == ByteBefore(last.operand)
        IN  /\ nes.cpu.a = (a + m + CarryIn) % U8
            /\ Flag(C) <=> a + m + CarryIn > 255
            /\ Flag(V) <=> (Signed(a) + Signed(m) + CarryIn) \notin -128 .. 127
            /\ Flag(Z) <=> (a + m + CarryIn) % U8 = 0
            /\ Flag(N) <=> (a + m + CarryIn) % U8 >= 128

\* C6 witness: 0x50 + 0x50 with carry clear gave 0xA0 with Negative and
\* Overflow set, Carry and Zero clear
C6_Witness ==
    /\ Completed
    /\ last.instruction.mnemonic = "ADC"
    /\ last.pre.cpu.a = \h50
    /\ ByteBefore(last.operand) = \h50
    /\ CarryIn = 0
    /\ nes.cpu.a = \hA0
    /\ Flag(N) /\ Flag(V) /\ ~Flag(C) /\ ~Flag(Z)

\* C7 (as the specification states it): SBC leaves A = (A - M - (1 - c))
\* mod 256, sets Carry iff A >= M + (1 - c), and sets Overflow iff the
\* signed result lies outside -128..127.
C7_SBC ==
    (Completed /\ last.instruction.mnemonic = "SBC") =>
        LET a == last.pre.cpu.a
            m == ByteBefore(last.operand)
            borrow == 1 - CarryIn
        IN  /\ nes.cpu.a = (a - m - borrow + 2 * U8) % U8
            /\ Flag(C) <=> a >= m + borrow
            /\ Flag(V) <=> (Signed(a) - Signed(m) - borrow) \notin -128 .. 127

\* C7 witness: 0x50 - 0x10 with carry set (no borrow) returned 0x41
C7_CarrySetAddsOne ==
    /\ Completed
    /\ last.instruction.mnemonic = "SBC"
    /\ last.pre.cpu.a = \h50
    /\ ByteBefore(last.operand) = \h10
    /\ CarryIn = 1
    /\ nes.cpu.a = \h41

\* C8: in Indirect addressing with pointer P from the instruction stream the
\* operand is mem[P] | mem[(P & 0xFF00) | ((P + 1) & 0x00FF)] << 8, the two
\* bytes being read at exactly those addresses; the resolver costs 4 ticks
\* and advances PC by 2.
C8_IndirectSamePage ==
    (Resolved /\ last.instruction.mode.name = "Indirect") =>
        /\ last.operand = ByteBefore(StreamWord)
                            + 256 * ByteBefore(SamePageNext(StreamWord))
        /\ log[4].op = "read" /\ log[4].addr = StreamWord
        /\ log[5].op = "read" /\ log[5].addr = SamePageNext(StreamWord)
        /\ ResolverTicks = 4
        /\ ResolverPcAdvance = 2

\* C8 witness: pointer 0x02FF, with 0x04 at 0x0200 and 0x06 at 0x0300, took
\* its high byte from 0x0200
C8_Witness ==
    /\ Resolved
    /\ last.instruction.mode.name = "Indirect"
    /\ StreamWord = \h02FF
    /\ ByteBefore(\h02FF) = \h34
    /\ ByteBefore(\h0200) = \h04
    /\ ByteBefore(\h0300) = \h06
    /\ last.operand = \h0434

\* C9: for ZeroPageX and ZeroPageY the operand is (base + index) mod 256, so
\* it lies in 0x00..0xFF; the resolver costs exactly 1 tick and advances PC
\* by 1.
C9_ZeroPageIndexedWraps ==
    (Resolved /\ last.instruction.mode.name \in {"ZeroPageX", "ZeroPageY"}) =>
        LET base == ByteBefore(last.fetched.cpu.pc)
            index == IF last.instruction.mode.name = "ZeroPageX"
                     THEN last.pre.cpu.x ELSE last.pre.cpu.y
        IN  /\ last.operand = (base + index) % U8
            /\ last.operand \in 0 .. 255
            /\ ResolverTicks = 1
            /\ ResolverPcAdvance = 1

\* C9 witness: base 0x80 with X = 0x93 resolved to 0x13
C9_Witness ==
    /\ Resolved
    /\ last.instruction.mode.name = "ZeroPageX"
    /\ ByteBefore(last.fetched.cpu.pc) = \h80
    /\ last.pre.cpu.x = \h93
    /\ last.operand = \h13

\* C10: for AbsoluteX and AbsoluteY with base B and index i the operand is
\* (B + i) mod 2^16 and PC advances by 2; the resolver costs 2 ticks when
\* oops is true and the high bytes of B and of the operand agree, 3 when
\* oops is true and they differ, and 3 whenever oops is false.
C10_AbsoluteIndexed ==
    (Resolved /\ last.instruction.mode.name \in {"AbsoluteX", "AbsoluteY"}) =>
        LET index == IF last.instruction.mode.name = "AbsoluteX"
                     THEN last.pre.cpu.x ELSE last.pre.cpu.y
        IN  /\ last.operand = (StreamWord + index) % U16
            /\ ResolverPcAdvance = 2
            /\ ResolverTicks =
                 IF last.instruction.mode.oops
                    /\ last.operand \div 256 = StreamWord \div 256
                 THEN 2 ELSE 3

\* C10 witness: oops = true, base 0xF036 and X = 0xF0 resolved to 0xF126 in
\* 3 ticks
C10_Witness ==
    /\ Resolved
    /\ last.instruction.mode = AbsoluteX(TRUE)
    /\ StreamWord = \hF036
    /\ last.pre.cpu.x = \hF0
    /\ last.operand = \hF126
    /\ ResolverTicks = 3

\* the latest two calls were made one right after the other, and returned
Consecutive(first, second) ==
    /\ Completed
    /\ previous.call = "cpu_step"
    /\ previous.instruction.mnemonic = first
    /\ last.instruction.mnemonic = second

BreakBits(p) == BitAnd(p, INSTRUCTION_B)

\* C11: PHP writes p OR 0x30 to the stack cell and leaves the live status
\* alone; PLP of a stacked byte v leaves live status v AND NOT 0x30; and for
\* a status p with no break-pattern bit, PHP immediately followed by PLP
\* leaves the status equal to p (so all six flags), the stack pointer where
\* it was, and bits 4 and 5 of the live status clear.
C11_StatusPushPull ==
    /\ (Completed /\ last.instruction.mnemonic = "PHP") =>
        /\ StorageByte(bus, nes.wram, last.pre.cpu.s)
             = BitOr(last.pre.cpu.p, INSTRUCTION_B)
        /\ nes.cpu.s = wrapping_sub8(last.pre.cpu.s, 1)
        /\ nes.cpu.p = last.pre.cpu.p
    /\ (Completed /\ last.instruction.mnemonic = "PLP") =>
        /\ nes.cpu.p = BitAnd(ByteBefore(wrapping_add8(last.pre.cpu.s, 1)),
                              \hFF - INSTRUCTION_B)
        /\ nes.cpu.s = wrapping_add8(last.pre.cpu.s, 1)
        /\ BreakBits(nes.cpu.p) = 0
    /\ (Consecutive("PHP", "PLP") /\ BreakBits(previous.pre.cpu.p) = 0) =>
        /\ nes.cpu.p = previous.pre.cpu.p
        /\ nes.cpu.s = previous.pre.cpu.s
        /\ BreakBits(nes.cpu.p) = 0

\* C11 witness: PHP then PLP with N, V, Z, C set and s = 0xFD: the stack
\* cell holds 0xF3 and the status is back to 0xC3
C11_Witness ==
    /\ Consecutive("PHP", "PLP")
    /\ previous.pre.cpu.p = \hC3
    /\ previous.pre.cpu.s = \hFD
    /\ StorageByte(bus, nes.wram, \hFD) = \hF3
    /\ nes.cpu.p = \hC3
    /\ nes.cpu.s = \hFD

\* C12 (as the specification states it): in every state reachable from a
\* power-on state, bits 4 and 5 of the live status register are clear.
C12_BreakBitsNeverLive == BreakBits(nes.cpu.p) = 0

\* C12 witness: BRK executed from an empty status returned with bits 4 and
\* 5 set in the live status register
C12_BreakLeavesBitsLive ==
    /\ Completed
    /\ last.instruction.mnemonic = "BRK"
    /\ last.pre.cpu.p = 0
    /\ nes.cpu.p = INSTRUCTION_B

\* the i-th bus access of the latest call was op at addr with the byte value
Access(i, op, addr, value) ==
    /\ i <= Len(log)
    /\ log[i].op = op
    /\ log[i].addr = addr
    /\ log[i].value = value

\* C13: BRK fetched at P with stack pointer S writes, in this order, the
\* high byte of P + 1 at stack cell S, its low byte at S - 1 and the status
\* with INSTRUCTION_B set at S - 2, leaves the stack pointer at S - 3 (mod
\* 256), then reads 0xFFFE and 0xFFFF and loads PC with that little-endian
\* word; the step costs exactly 7 ticks.
C13_BRK ==
    (Completed /\ last.instruction.mnemonic = "BRK") =>
        LET P == last.pre.cpu.pc
            S == last.pre.cpu.s
            Q == wrapping_add16(P, 1)
        IN  /\ Len(log) = 6
            /\ Access(1, "read", P, \h00)
            /\ Access(2, "write", S, Q \div 256)
            /\ Access(3, "write", wrapping_sub8(S, 1), Q % 256)
            /\ Access(4, "write", wrapping_sub8(S, 2),
                      BitOr(last.pre.cpu.p, INSTRUCTION_B))
            /\ Access(5, "read", \hFFFE, ByteBefore(\hFFFE))
            /\ Access(6, "read", \hFFFF, ByteBefore(\hFFFF))
            /\ nes.cpu.s = wrapping_sub8(S, 3)
            /\ nes.cpu.pc = ByteBefore(\hFFFE) + 256 * ByteBefore(\hFFFF)
            /\ StepTicks = 7

\* C13 witness: BRK at 0x02FF with s = 0x01 on the storage whose vector is
\* 0x4023: 0x03, 0x00 and the status were pushed at 0x01, 0x00 and 0xFF
C13_Witness ==
    /\ Completed
    /\ last.instruction.mnemonic = "BRK"
    /\ bus = "CpuBusMockForBRK"
    /\ last.pre.cpu.pc = \h02FF
    /\ last.pre.cpu.s = \h01
    /\ last.pre.cpu.p = \h49
    /\ Access(2, "write", \h01, \h03)
    /\ Access(3, "write", \h00, \h00)
    /\ Access(4, "write", \hFF, \h79)
    /\ nes.cpu.s = \hFE
    /\ nes.cpu.pc = \h4023
    /\ nes.cpu_cycles = U128(7)

Branches == {"BCC", "BCS", "BEQ", "BMI", "BNE", "BPL", "BVC", "BVS"}

\* the flag predicate of a branch mnemonic on status p, as documented
BranchTaken(mnemonic, p) ==
    CASE mnemonic = "BCC" -> ~contains(p, C)
      [] mnemonic = "BCS" -> contains(p, C)
      [] mnemonic = "BEQ" -> contains(p, Z)
      [] mnemonic = "BNE" -> ~contains(p, Z)
      [] mnemonic = "BMI" -> contains(p, N)
      [] mnemonic = "BPL" -> ~contains(p, N)
      [] mnemonic = "BVC" -> ~contains(p, V)
      [] mnemonic = "BVS" -> contains(p, V)

\* the latest call executed a branch instruction and returned
Branched == Completed /\ last.instruction.mnemonic \in Branches

\* the address of the instruction following the branch, and its displacement
FollowingPC == wrapping_add16(last.pre.cpu.pc, 2)

Displacement == ByteBefore(wrapping_add16(last.pre.cpu.pc, 1))

Page(addr) == addr \div 256

\* C14: a branch step costs exactly 2 ticks when the flag predicate fails
\* (and PC is then the following instruction), 3 ticks when the branch is
\* taken and the address it transfers control to lies in the page of the
\* following instruction, and 4 ticks when that address lies in another page.
C14_BranchTicks ==
    Branched =>
        IF ~BranchTaken(last.instruction.mnemonic, last.pre.cpu.p)
        THEN StepTicks = 2 /\ nes.cpu.pc = FollowingPC
        ELSE IF Page(nes.cpu.pc) = Page(FollowingPC)
        THEN StepTicks = 3
        ELSE StepTicks = 4

\* C14 witness: BCC at 0x0031 with N|V and displacement 0xD0, as in the
\* test: taken into another page for 4 ticks
C14_Witness ==
    /\ Branched
    /\ last.instruction.mnemonic = "BCC"
    /\ last.pre.cpu.pc = \h0031
    /\ last.pre.cpu.p = \hC0
    /\ Displacement = \hD0
    /\ Page(nes.cpu.pc) # Page(FollowingPC)
    /\ StepTicks = 4

\* C15 (as the specification states it): a taken branch leaves
\* PC = (Q + signed(d)) mod 2^16, Q being the address of the following
\* instruction and signed(d) = d - 256 for d >= 0x80.
C15_SignedDisplacement ==
    (Branched /\ BranchTaken(last.instruction.mnemonic, last.pre.cpu.p)) =>
        nes.cpu.pc = (FollowingPC + Signed(Displacement) + U16) % U16

\* C15 witness: BNE at 0x020F with displacement 0xFE (-2, a branch to
\* itself) went forward to 0x030F
C15_BranchesForward ==
    /\ Branched
    /\ last.instruction.mnemonic = "BNE"
    /\ BranchTaken("BNE", last.pre.cpu.p)
    /\ last.pre.cpu.pc = \h020F
    /\ Displacement = \hFE
    /\ nes.cpu.pc = \h030F

\* C16 (as the specification states it): JSR at P followed by RTS as the
\* first instruction at the subroutine target leaves PC = P + 3 and the
\* stack pointer at its value before the JSR.
C16_CallReturn ==
    (Consecutive("JSR", "RTS") /\ last.pre.cpu.pc = previous.operand) =>
        /\ nes.cpu.pc = wrapping_add16(previous.pre.cpu.pc, 3)
        /\ nes.cpu.s = previous.pre.cpu.s

\* C16 witness: JSR at 0x020F with s = 0xBF, then RTS at the target:
\* the stack pointer is back at 0xBF and PC is 0x0211, the address of the
\* JSR's last operand byte
C16_ReturnsIntoOperand ==
    /\ Consecutive("JSR", "RTS")
    /\ last.pre.cpu.pc = previous.operand
    /\ previous.pre.cpu.pc = \h020F
    /\ previous.pre.cpu.s = \hBF
    /\ nes.cpu.s = \hBF
    /\ nes.cpu.pc = \h0211

\* C17 (as the specification states it): no call of the router fails; a
\* read at 0x0000..0x07FF returns the byte last written there (0 if none)
\* and a write there stores the byte; a read anywhere else returns 0 and a
\* write anywhere else changes nothing.
C17_RouterNeverFails ==
    /\ fault = "none"
    /\ last.call = "Bus::read" =>
        /\ last.value = IF last.addr <= \h07FF
                        THEN WramGet(last.pre.wram, last.addr) ELSE 0
        /\ nes.wram = last.pre.wram
    /\ last.call = "Bus::write" =>
        nes.wram = IF last.addr <= \h07FF
                   THEN WramSet(last.pre.wram, last.addr, last.value)
                   ELSE last.pre.wram

\* C17 witness: a write of 0x5A at 0x07FF, an address of the working-RAM
\* range, ended in an out-of-bounds panic and stored nothing
C17_LastRamAddressPanics ==
    /\ last.call = "Bus::write"
    /\ last.addr = \h07FF
    /\ last.value = \h5A
    /\ fault = "index_out_of_bounds"
    /\ nes.wram = last.pre.wram

\* the call state the latest call of cpu_step started from
CallStateBefore ==
    [cpu |-> last.pre.cpu, wram |-> last.pre.wram,
     cpu_cycles |-> last.pre.cpu_cycles, bus |-> bus,
     overflow_checks |-> overflow_checks, fault |-> "none",
     storage_accesses |-> last.pre.storage_accesses,
     explicit_ticks |-> last.pre.explicit_ticks, log |-> <<>>]

\* the run of the latest call from the state that differs only in flag f
TwinRun(f) == cpu_step([CallStateBefore EXCEPT !.cpu.p = BitXor(@, f)])

\* C18: for ADC and SBC, the run from the state that differs only in D ends
\* with the same accumulator and the same C, Z, I, V, N (and the same
\* memory, PC and tick count), and each of the two runs leaves D as it
\* found it.
C18_DecimalHasNoEffect ==
    (Stepped /\ last.instruction.mnemonic \in {"ADC", "SBC"}) =>
        /\ TwinRun(D).fault = fault
        /\ TwinRun(D).cpu.a = nes.cpu.a
        /\ remove(TwinRun(D).cpu.p, D) = remove(nes.cpu.p, D)
        /\ TwinRun(D).cpu.pc = nes.cpu.pc
        /\ TwinRun(D).wram = nes.wram
        /\ TwinRun(D).cpu_cycles = nes.cpu_cycles
        /\ Flag(D) <=> contains(last.pre.cpu.p, D)
        /\ contains(TwinRun(D).cpu.p, D) <=> ~contains(last.pre.cpu.p, D)

\* C18 witness: ADC of 0x09 and 0x01 with D set and carry clear returned the
\* binary sum 0x0A, with D still set
C18_Witness ==
    /\ Completed
    /\ last.instruction.mnemonic = "ADC"
    /\ last.pre.cpu.p = \h08
    /\ last.pre.cpu.a = \h09
    /\ ByteBefore(last.operand) = \h01
    /\ nes.cpu.a = \h0A
    /\ nes.cpu.p = \h08

\* the bytes parse reads before the payload: the signature (offsets 0..3),
\* three one-byte fields, flags 7..10 and the padding (offsets 11..14)
HeaderLen == Len(MAGIC) + 3 + 4 + 4

Rejected == last.call = "parse" /\ ~last.result.ok /\ fault = "none"

\* C19: parse returns an error value, and neither a header nor a panic, for
\* a buffer whose first four bytes are not 4E 45 53 1A, for a buffer whose
\* bytes at offsets 11..14 are not all zero, and for a buffer too short to
\* hold the 15 bytes of header it reads.
C19_ParserRejects ==
    last.call = "parse" =>
        /\ fault = "none"
        /\ (Len(rom) >= 4 /\ SubSeq(rom, 1, 4) # MAGIC) => Rejected
        /\ (Len(rom) >= HeaderLen /\ SubSeq(rom, 12, 15) # <<0, 0, 0, 0>>) => Rejected
        /\ Len(rom) < HeaderLen => Rejected

\* C19 witness: a buffer with the right signature and a payload, whose only
\* defect is a non-zero last padding byte, was rejected for its padding
C19_Witness ==
    /\ Rejected
    /\ Len(rom) > HeaderLen
    /\ SubSeq(rom, 1, 4) = MAGIC
    /\ SubSeq(rom, 12, 15) = <<0, 0, 0, 1>>
    /\ last.result.msg = "invalid padding"

\* the latest call executed the memory form of a shift or rotate and returned
ShiftedMemory ==
    /\ Completed
    /\ last.instruction.mnemonic \in {"ASL", "LSR", "ROL", "ROR"}
    /\ last.instruction.mode.name # "Accumulator"

\* the accumulator form of the same operation, executed from the same
\* status with the accumulator holding the byte the memory form read
AccumulatorForm ==
    execute([CallStateBefore EXCEPT !.cpu.a = ByteBefore(last.operand)],
            Instruction(last.instruction.mnemonic, Accumulator), 0)

\* C20 (as the specification states it): for ASL, LSR, ROL and ROR, every
\* input byte and carry-in, the memory form stores the same 8-bit result as
\* the accumulator form leaves in A, with the same resulting Carry, Zero and
\* Negative flags.
C20_SameInBothForms ==
    ShiftedMemory =>
        /\ StorageByte(bus, nes.wram, last.operand) = AccumulatorForm.cpu.a
        /\ BitAnd(nes.cpu.p, C + Z + N) = BitAnd(AccumulatorForm.cpu.p, C + Z + N)

\* C20 witness: ASL of the memory byte 0x80 with carry clear stored 0x00 and
\* left Carry clear, where ASL of the accumulator holding 0x80 sets Carry
C20_MemoryShiftLeavesCarry ==
    /\ ShiftedMemory
    /\ last.instruction.mnemonic = "ASL"
    /\ ByteBefore(last.operand) = \h80
    /\ last.pre.cpu.p = 0
    /\ StorageByte(bus, nes.wram, last.operand) = 0
    /\ Flag(Z)
    /\ ~Flag(C)
    /\ AccumulatorForm.cpu.a = 0
    /\ contains(AccumulatorForm.cpu.p, C)

\* the latest call executed ROL or ROR and returned
Rotated == Completed /\ last.instruction.mnemonic \in {"ROL", "ROR"}

OnAccumulator == last.instruction.mode.name = "Accumulator"

\* the byte a shift or rotate worked on, and the byte it left in its target
TargetBefore == IF OnAccumulator THEN last.pre.cpu.a ELSE ByteBefore(last.operand)

TargetAfter ==
    IF OnAccumulator THEN nes.cpu.a ELSE StorageByte(bus, nes.wram, last.operand)

\* the bus accesses and explicit ticks of execute, after the resolver
ExecuteAccesses == SubSeq(log, last.resolved.accesses + 1, Len(log))

ExecuteTicks == explicit_ticks - last.resolved.explicit_ticks

\* C21: ROL leaves ((v << 1) | c) mod 256 in its target with Carry = old bit
\* 7, ROR leaves (v >> 1) | (c << 7) with Carry = old bit 0, c being the
\* Carry before; Zero and Negative follow the result.  The accumulator form
\* costs 2 ticks in all; the memory form makes one read of the operand
\* address, one write of the result there, and then exactly one more tick.
C21_RotateThroughCarry ==
    Rotated =>
        /\ TargetAfter = IF last.instruction.mnemonic = "ROL"
                         THEN (2 * TargetBefore + CarryIn) % U8
                         ELSE (TargetBefore \div 2) + 128 * CarryIn
        /\ Flag(C) <=> IF last.instruction.mnemonic = "ROL"
                       THEN TargetBefore >= 128
                       ELSE TargetBefore % 2 = 1
        /\ Flag(Z) <=> TargetAfter = 0
        /\ Flag(N) <=> TargetAfter >= 128
        /\ ExecuteTicks = 1
        /\ IF OnAccumulator
           THEN ExecuteAccesses = <<>> /\ StepTicks = 2
           ELSE /\ Len(ExecuteAccesses) = 2
                /\ ExecuteAccesses[1].op = "read"
                /\ ExecuteAccesses[1].addr = last.operand
                /\ ExecuteAccesses[2].op = "write"
                /\ ExecuteAccesses[2].addr = last.operand
                /\ ExecuteAccesses[2].value = TargetAfter
                /\ nes.cpu_cycles = wrapping_add128(ExecuteAccesses[2].clock_after, 1)

\* C21 witness: ROR of the memory byte 0x01 with Carry set stored 0x80 and
\* left Carry and Negative set
C21_Witness ==
    /\ Rotated
    /\ last.instruction.mnemonic = "ROR"
    /\ ~OnAccumulator
    /\ TargetBefore = \h01
    /\ CarryIn = 1
    /\ TargetAfter = \h80
    /\ Flag(C) /\ Flag(N) /\ ~Flag(Z)
    /\ StepTicks = 5

\* C22: JSR at P with absolute target T writes the high byte of P + 2 at
\* stack cell S and then its low byte at S - 1, leaves the stack pointer at
\* S - 2 (mod 256) and PC at T, and costs 6 ticks, one more than its bus
\* accesses; RTS leaves the stack pointer at S + 2 (mod 256) and costs 6
\* ticks, three more than its bus accesses.
C22_CallAndReturnCosts ==
    /\ (Completed /\ last.instruction.mnemonic = "JSR") =>
        /\ Len(log) = 5
        /\ Access(4, "write", last.pre.cpu.s,
                  wrapping_add16(last.pre.cpu.pc, 2) \div 256)
        /\ Access(5, "write", wrapping_sub8(last.pre.cpu.s, 1),
                  wrapping_add16(last.pre.cpu.pc, 2) % 256)
        /\ nes.cpu.s = wrapping_sub8(last.pre.cpu.s, 2)
        /\ nes.cpu.pc = StreamWord
        /\ StepTicks = 6
        /\ StepTicks = Len(log) + 1
    /\ (Completed /\ last.instruction.mnemonic = "RTS") =>
        /\ nes.cpu.s = wrapping_add8(last.pre.cpu.s, 2)
        /\ StepTicks = 6
        /\ StepTicks = Len(log) + 3

\* C22 witness: JSR $0431 at 0x02FD with s = 0x00 pushed 0x02 at 0x00 and
\* 0xFF at 0xFF, and the RTS at 0x0431 then brought s back to 0x00
C22_Witness ==
    /\ Consecutive("JSR", "RTS")
    /\ previous.pre.cpu.pc = \h02FD
    /\ previous.pre.cpu.s = \h00
    /\ previous.operand = \h0431
    /\ last.pre.cpu.s = \hFE
    /\ ByteBefore(\h00) = \h02
    /\ ByteBefore(\hFF) = \hFF
    /\ nes.cpu.s = \h00
    /\ nes.cpu_cycles = U128(12)

\* C23: RTI reads the status byte at stack cell S + 1, then the PC low byte
\* at S + 2, then the PC high byte at S + 3 (mod 256) and leaves the stack
\* pointer at S + 3; the live status is the pulled byte with bits 4 and 5
\* cleared, whatever the status was before; PC is the pulled word; the step
\* costs 6 ticks, two more than its bus accesses.
C23_RTI ==
    (Completed /\ last.instruction.mnemonic = "RTI") =>
        LET S == last.pre.cpu.s
        IN  /\ Len(log) = 4
            /\ Access(2, "read", wrapping_add8(S, 1), ByteBefore(wrapping_add8(S, 1)))
            /\ Access(3, "read", wrapping_add8(S, 2), ByteBefore(wrapping_add8(S, 2)))
            /\ Access(4, "read", wrapping_add8(S, 3), ByteBefore(wrapping_add8(S, 3)))
            /\ nes.cpu.s = wrapping_add8(S, 3)
            /\ nes.cpu.p = BitAnd(ByteBefore(wrapping_add8(S, 1)), \hFF - INSTRUCTION_B)
            /\ BreakBits(nes.cpu.p) = 0
            /\ nes.cpu.pc = ByteBefore(wrapping_add8(S, 2))
                              + 256 * ByteBefore(wrapping_add8(S, 3))
            /\ StepTicks = 6
            /\ StepTicks = Len(log) + 2

\* C23 witness: RTI with s = 0xFD and every status bit set pulled 0xB2,
\* 0x11 and 0x02 from 0xFE, 0xFF and 0x00: status 0x82, PC 0x0211, s 0x00
C23_Witness ==
    /\ Completed
    /\ last.instruction.mnemonic = "RTI"
    /\ last.pre.cpu.s = \hFD
    /\ last.pre.cpu.p = \hFF
    /\ Access(2, "read", \hFE, \hB2)
    /\ Access(3, "read", \hFF, \h11)
    /\ Access(4, "read", \h00, \h02)
    /\ nes.cpu.p = \h82
    /\ nes.cpu.pc = \h0211
    /\ nes.cpu.s = \h00
    /\ nes.cpu_cycles = U128(6)

\* the stack cell n places above the stack pointer the latest call found
CellAbove(n) == (last.pre.cpu.s + n) % U8

CellBelow(n) == (last.pre.cpu.s - n + U8) % U8

\* C24: push_stack writes at the cell indexed by S and then decrements S
\* modulo 256; pull_stack increments S modulo 256 and then reads;
\* push_stack_word writes the high byte and then the low byte;
\* pull_stack_word reads the low byte and then the high byte; a word pulled
\* right after a word was pushed is that word, with S back where it was; and
\* every access is to the one 256-byte page S indexes.
C24_StackDiscipline ==
    /\ fault = "none"
    /\ \A i \in 1 .. Len(log) : Page(log[i].addr) = Page(last.pre.cpu.s)
    /\ last.call = "push_stack" =>
        /\ Len(log) = 1
        /\ Access(1, "write", last.pre.cpu.s, last.arg)
        /\ nes.cpu.s = CellBelow(1)
    /\ last.call = "pull_stack" =>
        /\ Len(log) = 1
        /\ Access(1, "read", CellAbove(1), last.result)
        /\ last.result = ByteBefore(CellAbove(1))
        /\ nes.cpu.s = CellAbove(1)
    /\ last.call = "push_stack_word" =>
        /\ Len(log) = 2
        /\ Access(1, "write", last.pre.cpu.s, last.arg \div 256)
        /\ Access(2, "write", CellBelow(1), last.arg % 256)
        /\ nes.cpu.s = CellBelow(2)
    /\ last.call = "pull_stack_word" =>
        /\ Len(log) = 2
        /\ Access(1, "read", CellAbove(1), last.result % 256)
        /\ Access(2, "read", CellAbove(2), last.result \div 256)
        /\ last.result = ByteBefore(CellAbove(1)) + 256 * ByteBefore(CellAbove(2))
        /\ nes.cpu.s = CellAbove(2)
    /\ (last.call = "pull_stack_word" /\ previous.call = "push_stack_word") =>
        /\ last.result = previous.arg
        /\ nes.cpu.s = previous.pre.cpu.s

\* C24 witness: 0x1234 pushed from S = 0x00 (cells 0x00 and 0xFF, S wrapping
\* to 0xFE) and pulled again, with S back at 0x00
C24_Witness ==
    /\ last.call = "pull_stack_word"
    /\ previous.call = "push_stack_word"
    /\ previous.arg = \h1234
    /\ previous.pre.cpu.s = \h00
    /\ last.pre.cpu.s = \hFE
    /\ ByteBefore(\h00) = \h12
    /\ ByteBefore(\hFF) = \h34
    /\ last.result = \h1234
    /\ nes.cpu.s = \h00

\* the operations that only read their operand's cell, and the ones that
\* write it (a store or a read-modify-write)
ReadType == {"LDA", "LDX", "LDY", "ADC", "SBC", "AND", "ORA", "EOR", "CMP"}

WriteType == {"STA", "ASL", "LSR", "ROL", "ROR", "INC", "DEC"}

\* the pair decode gives for the opcode byte is an absolute-indexed one
AbsoluteIndexed(opcode) ==
    decode(opcode).mode.name \in {"AbsoluteX", "AbsoluteY"}

\* C25 (as the specification states it): every AbsoluteX/AbsoluteY opcode of
\* a read-type operation carries oops = true, and every AbsoluteX/AbsoluteY
\* opcode of a store or read-modify-write operation carries oops = false.
C25_OopsByShape ==
    (Stepped /\ AbsoluteIndexed(last.opcode)) =>
        /\ last.instruction = decode(last.opcode)
        /\ last.instruction.mnemonic \in ReadType
             => last.instruction.mode.oops = TRUE
        /\ last.instruction.mnemonic \in WriteType
             => last.instruction.mode.oops = FALSE

\* C25 failing state: the byte 0xD9 decoded to CMP with AbsoluteY and
\* oops = false, and the resolver took 3 ticks with base 0x0310 and Y = 0x31,
\* which stay on one page
C25_CompareAlwaysPenalized ==
    /\ Resolved
    /\ last.opcode = \hD9
    /\ last.instruction = Instruction("CMP", AbsoluteY(FALSE))
    /\ StreamWord = \h0310
    /\ last.pre.cpu.y = \h31
    /\ last.operand = \h0341
    /\ ResolverTicks = 3

\* the documented 6502 instruction set: opcode byte, operation, addressing mode
DocumentedTable ==
    {<<\h69, "ADC", "Immediate">>, <<\h65, "ADC", "ZeroPage">>,
     <<\h75, "ADC", "ZeroPageX">>, <<\h6D, "ADC", "Absolute">>,
     <<\h7D, "ADC", "AbsoluteX">>, <<\h79, "ADC", "AbsoluteY">>,
     <<\h61, "ADC", "IndexedIndirect">>, <<\h71, "ADC", "IndirectIndexed">>,
     <<\h29, "AND", "Immediate">>, <<\h25, "AND", "ZeroPage">>,
     <<\h35, "AND", "ZeroPageX">>, <<\h2D, "AND", "Absolute">>,
     <<\h3D, "AND", "AbsoluteX">>, <<\h39, "AND", "AbsoluteY">>,
     <<\h21, "AND", "IndexedIndirect">>, <<\h31, "AND", "IndirectIndexed">>,
     <<\h0A, "ASL", "Accumulator">>, <<\h06, "ASL", "ZeroPage">>,
     <<\h16, "ASL", "ZeroPageX">>, <<\h0E, "ASL", "Absolute">>,
     <<\h1E, "ASL", "AbsoluteX">>, <<\h90, "BCC", "Relative">>,
     <<\hB0, "BCS", "Relative">>, <<\hF0, "BEQ", "Relative">>,
     <<\h24, "BIT", "ZeroPage">>, <<\h2C, "BIT", "Absolute">>,
     <<\h30, "BMI", "Relative">>, <<\hD0, "BNE", "Relative">>,
     <<\h10, "BPL", "Relative">>, <<\h00, "BRK", "Implicit">>,
     <<\h50, "BVC", "Relative">>, <<\h70, "BVS", "Relative">>,
     <<\h18, "CLC", "Implicit">>, <<\hD8, "CLD", "Implicit">>,
     <<\h58, "CLI", "Implicit">>, <<\hB8, "CLV", "Implicit">>,
     <<\hC9, "CMP", "Immediate">>, <<\hC5, "CMP", "ZeroPage">>,
     <<\hD5, "CMP", "ZeroPageX">>, <<\hCD, "CMP", "Absolute">>,
     <<\hDD, "CMP", "AbsoluteX">>, <<\hD9, "CMP", "AbsoluteY">>,
     <<\hC1, "CMP", "IndexedIndirect">>, <<\hD1, "CMP", "IndirectIndexed">>,
     <<\hE0, "CPX", "Immediate">>, <<\hE4, "CPX", "ZeroPage">>,
     <<\hEC, "CPX", "Absolute">>, <<\hC0, "CPY", "Immediate">>,
     <<\hC4, "CPY", "ZeroPage">>, <<\hCC, "CPY", "Absolute">>,
     <<\hC6, "DEC", "ZeroPage">>, <<\hD6, "DEC", "ZeroPageX">>,
     <<\hCE, "DEC", "Absolute">>, <<\hDE, "DEC", "AbsoluteX">>,
     <<\hCA, "DEX", "Implicit">>, <<\h88, "DEY", "Implicit">>,
     <<\h49, "EOR", "Immediate">>, <<\h45, "EOR", "ZeroPage">>,
     <<\h55, "EOR", "ZeroPageX">>, <<\h4D, "EOR", "Absolute">>,
     <<\h5D, "EOR", "AbsoluteX">>, <<\h59, "EOR", "AbsoluteY">>,
     <<\h41, "EOR", "IndexedIndirect">>, <<\h51, "EOR", "IndirectIndexed">>,
     <<\hE6, "INC", "ZeroPage">>, <<\hF6, "INC", "ZeroPageX">>,
     <<\hEE, "INC", "Absolute">>, <<\hFE, "INC", "AbsoluteX">>,
     <<\hE8, "INX", "Implicit">>, <<\hC8, "INY", "Implicit">>,
     <<\h4C, "JMP", "Absolute">>, <<\h6C, "JMP", "Indirect">>,
     <<\h20, "JSR", "Absolute">>, <<\hA9, "LDA", "Immediate">>,
     <<\hA5, "LDA", "ZeroPage">>, <<\hB5, "LDA", "ZeroPageX">>,
     <<\hAD, "LDA", "Absolute">>, <<\hBD, "LDA", "AbsoluteX">>,
     <<\hB9, "LDA", "AbsoluteY">>, <<\hA1, "LDA", "IndexedIndirect">>,
     <<\hB1, "LDA", "IndirectIndexed">>, <<\hA2, "LDX", "Immediate">>,
     <<\hA6, "LDX", "ZeroPage">>, <<\hB6, "LDX", "ZeroPageY">>,
     <<\hAE, "LDX", "Absolute">>, <<\hBE, "LDX", "AbsoluteY">>,
     <<\hA0, "LDY", "Immediate">>, <<\hA4, "LDY", "ZeroPage">>,
     <<\hB4, "LDY", "ZeroPageX">>, <<\hAC, "LDY", "Absolute">>,
     <<\hBC, "LDY", "AbsoluteX">>, <<\h4A, "LSR", "Accumulator">>,
     <<\h46, "LSR", "ZeroPage">>, <<\h56, "LSR", "ZeroPageX">>,
     <<\h4E, "LSR", "Absolute">>, <<\h5E, "LSR", "AbsoluteX">>,
     <<\hEA, "NOP", "Implicit">>, <<\h09, "ORA", "Immediate">>,
     <<\h05, "ORA", "ZeroPage">>, <<\h15, "ORA", "ZeroPageX">>,
     <<\h0D, "ORA", "Absolute">>, <<\h1D, "ORA", "AbsoluteX">>,
     <<\h19, "ORA", "AbsoluteY">>, <<\h01, "ORA", "IndexedIndirect">>,
     <<\h11, "ORA", "IndirectIndexed">>, <<\h48, "PHA", "Implicit">>,
     <<\h08, "PHP", "Implicit">>, <<\h68, "PLA", "Implicit">>,
     <<\h28, "PLP", "Implicit">>, <<\h2A, "ROL", "Accumulator">>,
     <<\h26, "ROL", "ZeroPage">>, <<\h36, "ROL", "ZeroPageX">>,
     <<\h2E, "ROL", "Absolute">>, <<\h3E, "ROL", "AbsoluteX">>,
     <<\h6A, "ROR", "Accumulator">>, <<\h66, "ROR", "ZeroPage">>,
     <<\h76, "ROR", "ZeroPageX">>, <<\h6E, "ROR", "Absolute">>,
     <<\h7E, "ROR", "AbsoluteX">>, <<\h40, "RTI", "Implicit">>,
     <<\h60, "RTS", "Implicit">>, <<\hE9, "SBC", "Immediate">>,
     <<\hE5, "SBC", "ZeroPage">>, <<\hF5, "SBC", "ZeroPageX">>,
     <<\hED, "SBC", "Absolute">>, <<\hFD, "SBC", "AbsoluteX">>,
     <<\hF9, "SBC", "AbsoluteY">>, <<\hE1, "SBC", "IndexedIndirect">>,
     <<\hF1, "SBC", "IndirectIndexed">>, <<\h38, "SEC", "Implicit">>,
     <<\hF8, "SED", "Implicit">>, <<\h78, "SEI", "Implicit">>,
     <<\h85, "STA", "ZeroPage">>, <<\h95, "STA", "ZeroPageX">>,
     <<\h8D, "STA", "Absolute">>, <<\h9D, "STA", "AbsoluteX">>,
     <<\h99, "STA", "AbsoluteY">>, <<\h81, "STA", "IndexedIndirect">>,
     <<\h91, "STA", "IndirectIndexed">>, <<\h86, "STX", "ZeroPage">>,
     <<\h96, "STX", "ZeroPageY">>, <<\h8E, "STX", "Absolute">>,
     <<\h84, "STY", "ZeroPage">>, <<\h94, "STY", "ZeroPageX">>,
     <<\h8C, "STY", "Absolute">>, <<\hAA, "TAX", "Implicit">>,
     <<\hA8, "TAY", "Implicit">>, <<\hBA, "TSX", "Implicit">>,
     <<\h8A, "TXA", "Implicit">>, <<\h9A, "TXS", "Implicit">>,
     <<\h98, "TYA", "Implicit">>}

\* the documented (operation, addressing mode) pair of a documented opcode
Documented(opcode) ==
    LET row == CHOOSE r \in DocumentedTable : r[1] = opcode
    IN  <<row[2], row[3]>>

\* the (operation, addressing mode) pair of a decoded instruction
Pair(instruction) == <<instruction.mnemonic, instruction.mode.name>>

\* C26 (as the specification states it): among the 151 documented opcodes,
\* decode returns the documented (operation, addressing mode) pair for every
\* opcode except exactly two, 0x81 and 0x91, which it maps to STA with
\* ZeroPage addressing instead of IndexedIndirect and IndirectIndexed.
C26_ExactlyTwoDeviations ==
    /\ {r[1] : r \in DocumentedTable} = DocumentedOpcodes
    /\ Cardinality(DocumentedOpcodes) = Cardinality(DocumentedTable)
    /\ (Stepped /\ last.opcode \in DocumentedOpcodes) =>
          /\ last.instruction = decode(last.opcode)
          /\ IF last.opcode \in {\h81, \h91}
                THEN /\ last.instruction = Instruction("STA", ZeroPage)
                     /\ Pair(last.instruction) # Documented(last.opcode)
                ELSE Pair(last.instruction) = Documented(last.opcode)

\* C26 failing state: the byte 0xBC, documented as LDY absolute,X, decoded to
\* LDY with AbsoluteY, and the step loaded Y from base + Y, a different cell
\* from base + X
C26_LoadYIndexedByY ==
    /\ Completed
    /\ last.opcode = \hBC
    /\ Documented(last.opcode) = <<"LDY", "AbsoluteX">>
    /\ last.instruction = Instruction("LDY", AbsoluteY(TRUE))
    /\ last.operand = (StreamWord + last.pre.cpu.y) % U16
    /\ last.operand # (StreamWord + last.pre.cpu.x) % U16
    /\ nes.cpu.y = ByteBefore(last.operand)

\* the resolver of the latest step dereferenced a 16-bit pointer
ThroughPointer ==
    /\ Resolved
    /\ last.instruction.mode.name \in {"Indirect", "IndexedIndirect", "IndirectIndexed"}

\* the address the pointer's low byte is read at
PointerAddress ==
    CASE last.instruction.mode.name = "IndexedIndirect" ->
            (ByteBefore(last.fetched.cpu.pc) + last.pre.cpu.x) % 256
      [] last.instruction.mode.name = "IndirectIndexed" ->
            ByteBefore(last.fetched.cpu.pc)
      [] OTHER -> StreamWord

\* the 16-bit word the resolver read through the pointer: its last two reads
PointerLowRead == log[last.resolved.accesses - 1]

PointerHighRead == log[last.resolved.accesses]

PointerWord == PointerLowRead.value + 256 * PointerHighRead.value

\* C27 (as the specification states it): the same-page high-byte wrap
\* applies only to Indirect addressing; in IndexedIndirect and
\* IndirectIndexed the high byte of the pointer is read from pointer
\* address + 1, for every pointer address including 0xFF.
C27_WrapOnlyInIndirect ==
    (ThroughPointer /\ last.instruction.mode.name # "Indirect") =>
        /\ PointerLowRead.op = "read" /\ PointerLowRead.addr = PointerAddress
        /\ PointerHighRead.op = "read"
        /\ PointerHighRead.addr = PointerAddress + 1
        /\ PointerHighRead.value = ByteBefore(PointerAddress + 1)

\* C27 (amended): in Indirect, IndexedIndirect and IndirectIndexed alike the
\* low byte of the pointer is read at the pointer address P and the high
\* byte at (P & 0xFF00) | ((P + 1) & 0x00FF); a pointer at 0x00FF takes its
\* high byte from 0x0000, never from 0x0100.
C27_SamePageInEveryPointerMode ==
    ThroughPointer =>
        /\ PointerLowRead.op = "read" /\ PointerLowRead.addr = PointerAddress
        /\ PointerLowRead.value = ByteBefore(PointerAddress)
        /\ PointerHighRead.op = "read"
        /\ PointerHighRead.addr = SamePageNext(PointerAddress)
        /\ PointerHighRead.value = ByteBefore(SamePageNext(PointerAddress))
        /\ PointerAddress = \h00FF => PointerHighRead.addr = \h0000

\* C27 witness: LDA (zp),Y with the pointer at 0xFF, 0x02 in cell 0x0000 and
\* 0x06 in cell 0x0100, read its high byte from 0x0000
C27_Witness ==
    /\ ThroughPointer
    /\ last.instruction.mode.name = "IndirectIndexed"
    /\ PointerAddress = \h00FF
    /\ ByteBefore(\h0000) = \h02
    /\ ByteBefore(\h0100) = \h06
    /\ PointerHighRead.addr = \h0000
    /\ PointerWord = \h0200 + ByteBefore(\h00FF)

\* the bus accesses and explicit ticks of the resolver, after the opcode fetch
ResolverAccesses == last.resolved.accesses - last.fetched.accesses

ResolverExplicitTicks == last.resolved.explicit_ticks - last.fetched.explicit_ticks

\* the little-endian word at a pointer in page zero, as the resolver reads it
WordBefore(pointer) ==
    ByteBefore(pointer) + 256 * ByteBefore(SamePageNext(pointer))

\* C28: in IndexedIndirect addressing with base byte B the pointer address
\* is (B + X) mod 256, formed before anything is dereferenced (no cell
\* outside page zero is read for it), and the operand is the little-endian
\* word read at that pointer; the resolver makes three reads and one extra
\* tick, 4 ticks in all, and advances PC by 1.
C28_IndexedIndirect ==
    (Resolved /\ last.instruction.mode.name = "IndexedIndirect") =>
        LET base == ByteBefore(last.fetched.cpu.pc)
            pointer == (base + last.pre.cpu.x) % 256
        IN  /\ Access(2, "read", last.fetched.cpu.pc, base)
            /\ Access(3, "read", pointer, ByteBefore(pointer))
            /\ log[4].op = "read" /\ log[4].addr \in 0 .. 255
            /\ last.operand = log[3].value + 256 * log[4].value
            /\ last.operand = WordBefore(pointer)
            /\ ResolverAccesses = 3
            /\ ResolverExplicitTicks = 1
            /\ ResolverTicks = 4
            /\ ResolverPcAdvance = 1

\* C28 witness: base 0xF0 with X = 0x93 read the word 0x9034 at pointer 0x83
\* in 4 ticks
C28_Witness ==
    /\ Resolved
    /\ last.instruction.mode.name = "IndexedIndirect"
    /\ ByteBefore(last.fetched.cpu.pc) = \hF0
    /\ last.pre.cpu.x = \h93
    /\ log[3].addr = \h0083
    /\ last.operand = \h9034
    /\ ResolverTicks = 4

\* C29: in IndirectIndexed addressing the operand is (W + Y) mod 2^16, W
\* being the word read through the page-zero pointer the operand byte
\* names; the resolver costs 3 ticks, and exactly 1 more iff the high byte
\* of (W + Y) mod 2^16 differs from the high byte of W; PC advances by 1.
C29_IndirectIndexed ==
    (Resolved /\ last.instruction.mode.name = "IndirectIndexed") =>
        LET pointer == ByteBefore(last.fetched.cpu.pc)
            W == WordBefore(pointer)
        IN  /\ Access(2, "read", last.fetched.cpu.pc, pointer)
            /\ Access(3, "read", pointer, ByteBefore(pointer))
            /\ W = log[3].value + 256 * log[4].value
            /\ last.operand = (W + last.pre.cpu.y) % U16
            /\ ResolverAccesses = 3
            /\ ResolverTicks = IF last.operand \div 256 # W \div 256 THEN 4 ELSE 3
            /\ ResolverPcAdvance = 1

\* C29 witness: the word 0x9034 through pointer 0xF0 with Y = 0xF0 gave
\* 0x9124 across a page boundary, in 4 ticks
C29_Witness ==
    /\ Resolved
    /\ last.instruction.mode.name = "IndirectIndexed"
    /\ ByteBefore(last.fetched.cpu.pc) = \hF0
    /\ WordBefore(\hF0) = \h9034
    /\ last.pre.cpu.y = \hF0
    /\ last.operand = \h9124
    /\ ResolverTicks = 4

\* C30: a step whose opcode byte is not a documented opcode is a
\* no-operation: A, X, Y, S, the status register and all memory are as they
\* were, PC has advanced by exactly 1, and the step has cost 2 ticks, the
\* opcode fetch and one more, with no bus access besides the fetch.
C30_UndocumentedIsNoOperation ==
    (Completed /\ last.opcode \notin DocumentedOpcodes) =>
        /\ nes.cpu.a = last.pre.cpu.a
        /\ nes.cpu.x = last.pre.cpu.x
        /\ nes.cpu.y = last.pre.cpu.y
        /\ nes.cpu.s = last.pre.cpu.s
        /\ nes.cpu.p = last.pre.cpu.p
        /\ nes.wram = last.pre.wram
        /\ nes.cpu.pc = (last.pre.cpu.pc + 1) % U16
        /\ StepTicks = 2
        /\ Len(log) = 1
        /\ explicit_ticks = last.pre.explicit_ticks + 1

\* C30 witness: the byte 0x80 (a two-byte no-operation on the hardware),
\* fetched at 0x020F with flags set, left the registers alone and PC at
\* 0x0210 after 2 ticks
C30_Witness ==
    /\ Completed
    /\ last.opcode = \h80
    /\ last.opcode \notin DocumentedOpcodes
    /\ last.pre.cpu.pc = \h020F
    /\ last.pre.cpu.p = \hC3
    /\ nes.cpu.p = \hC3
    /\ nes.cpu.pc = \h0210
    /\ StepTicks = 2

\* the number of instruction-stream bytes an addressing mode consumes
OperandLength(mode) ==
    CASE mode.name \in {"Implicit", "Accumulator"} -> 0
      [] mode.name \in {"Immediate", "ZeroPage", "ZeroPageX", "ZeroPageY",
                        "Relative", "IndexedIndirect", "IndirectIndexed"} -> 1
      [] mode.name \in {"Absolute", "AbsoluteX", "AbsoluteY", "Indirect"} -> 2

\* the latest step transferred control: a jump, call, return, BRK or a branch
\* whose flag predicate held
TransferredControl ==
    \/ last.instruction.mnemonic \in {"JMP", "JSR", "RTS", "RTI", "BRK"}
    \/ /\ last.instruction.mnemonic \in Branches
       /\ BranchTaken(last.instruction.mnemonic, last.pre.cpu.p)

\* C31: the resolver advances PC by the operand length n of the addressing
\* mode (0, 1 or 2 bytes), and a step from PC = P of an operation that is
\* not a jump, call, return, taken branch or BRK leaves PC = (P + 1 + n) mod
\* 2^16; in Immediate mode the resolver returns the address P + 1 itself,
\* with no tick and no bus access.
C31_OperandLength ==
    /\ Resolved => ResolverPcAdvance = OperandLength(last.instruction.mode)
    /\ (Completed /\ ~TransferredControl) =>
          nes.cpu.pc = (last.pre.cpu.pc + 1 + OperandLength(last.instruction.mode)) % U16
    /\ (Resolved /\ last.instruction.mode.name = "Immediate") =>
          /\ last.operand = (last.pre.cpu.pc + 1) % U16
          /\ ResolverTicks = 0
          /\ last.resolved.accesses = last.fetched.accesses

\* C31 witness: INC $0310 (three bytes) fetched at 0x0212, after a
\* three-byte instruction at 0x020F, left PC at 0x0215
C31_Witness ==
    /\ Completed
    /\ steps = 2
    /\ last.opcode = \hEE
    /\ last.instruction.mode.name = "Absolute"
    /\ last.pre.cpu.pc = \h0212
    /\ nes.cpu.pc = \h0215

\* C32: each of the eight branch instructions is taken (it runs `branch`,
\* which ticks and moves PC by the displacement) iff its flag predicate
\* holds; no branch, taken or not, changes A, X, Y, S, the status or memory;
\* and a branch that is not taken changes nothing but PC, which is then the
\* following instruction (+2), and the clock.
C32_BranchOnFlag ==
    Branched =>
        /\ (ExecuteTicks > 0)
             <=> BranchTaken(last.instruction.mnemonic, last.pre.cpu.p)
        /\ (nes.cpu.pc # FollowingPC)
             <=> (/\ BranchTaken(last.instruction.mnemonic, last.pre.cpu.p)
                  /\ Displacement # 0)
        /\ nes.cpu.a = last.pre.cpu.a
        /\ nes.cpu.x = last.pre.cpu.x
        /\ nes.cpu.y = last.pre.cpu.y
        /\ nes.cpu.s = last.pre.cpu.s
        /\ nes.cpu.p = last.pre.cpu.p
        /\ nes.wram = last.pre.wram
        /\ ~BranchTaken(last.instruction.mnemonic, last.pre.cpu.p) =>
             /\ nes.cpu.pc = FollowingPC
             /\ StepTicks = 2

\* C32 witness: BVS with N and C set but V clear was not taken: PC went from
\* 0x020F to 0x0211 past a displacement of 0x40, in 2 ticks
C32_Witness ==
    /\ Branched
    /\ last.instruction.mnemonic = "BVS"
    /\ last.pre.cpu.p = \h81
    /\ last.pre.cpu.pc = \h020F
    /\ Displacement = \h40
    /\ nes.cpu.pc = \h0211
    /\ StepTicks = 2

\* the operations that write a register and set Zero and Negative from it
SetsZN ==
    {"LDA", "LDX", "LDY", "TAX", "TAY", "TXA", "TYA", "TSX", "PLA", "INX",
     "INY", "DEX", "DEY", "AND", "ORA", "EOR"}

\* the register such an operation writes
Destination(mnemonic) ==
    CASE mnemonic \in {"LDA", "TXA", "TYA", "PLA", "AND", "ORA", "EOR"} -> "a"
      [] mnemonic \in {"LDX", "TAX", "TSX", "INX", "DEX"} -> "x"
      [] mnemonic \in {"LDY", "TAY", "INY", "DEY"} -> "y"

\* the byte the operation's instruction set definition puts there, m being
\* the byte it reads (its operand byte, or the stack cell PLA pulls)
Written(mnemonic, r, m) ==
    CASE mnemonic \in {"LDA", "LDX", "LDY", "PLA"} -> m
      [] mnemonic \in {"TAX", "TAY"} -> r.a
      [] mnemonic = "TXA" -> r.x
      [] mnemonic = "TYA" -> r.y
      [] mnemonic = "TSX" -> r.s
      [] mnemonic = "INX" -> (r.x + 1) % 256
      [] mnemonic = "INY" -> (r.y + 1) % 256
      [] mnemonic = "DEX" -> (r.x + 255) % 256
      [] mnemonic = "DEY" -> (r.y + 255) % 256
      [] mnemonic = "AND" -> BitAnd(r.a, m)
      [] mnemonic = "ORA" -> BitOr(r.a, m)
      [] mnemonic = "EOR" -> BitXor(r.a, m)

\* the byte the latest step read for its operation
ByteRead ==
    IF last.instruction.mnemonic = "PLA"
    THEN ByteBefore((last.pre.cpu.s + 1) % 256)
    ELSE ByteBefore(last.operand)

\* C33: after LDA, LDX, LDY, TAX, TAY, TXA, TYA, TSX, PLA, INX, INY, DEX,
\* DEY, AND, ORA or EOR the destination register holds the operation's
\* value, Zero is set iff that value is 0 and Negative iff its bit 7 is 1,
\* and C, V, I and D are as they were; TXS copies X into S and leaves the
\* whole status register as it was.
C33_ZeroAndNegative ==
    /\ (Completed /\ last.instruction.mnemonic \in SetsZN) =>
          LET v == nes.cpu[Destination(last.instruction.mnemonic)]
          IN  /\ v = Written(last.instruction.mnemonic, last.pre.cpu, ByteRead)
              /\ Flag(Z) <=> v = 0
              /\ Flag(N) <=> v >= 128
              /\ \A f \in {C, V, I, D} : Flag(f) <=> contains(last.pre.cpu.p, f)
    /\ (Completed /\ last.instruction.mnemonic = "TXS") =>
          /\ nes.cpu.s = last.pre.cpu.x
          /\ nes.cpu.p = last.pre.cpu.p

\* C33 witness: DEX from X = 0x00 with C, I, D and V set left X = 0xFF,
\* Negative set, Zero clear and the other four flags set
C33_Witness ==
    /\ Completed
    /\ last.instruction.mnemonic = "DEX"
    /\ last.pre.cpu.x = \h00
    /\ last.pre.cpu.p = \h4D
    /\ nes.cpu.x = \hFF
    /\ nes.cpu.p = \hCD

\* C34: BRK followed by RTI is a round trip: when the live status before
\* BRK has no break-pattern bit and RTI is the first instruction of the
\* handler, then after the two steps the stack pointer and the status (all
\* six flags, with no break-pattern bit live) are as they were before BRK,
\* and PC is the program-counter value BRK pushed, which is the address
\* after the BRK opcode.
C34_BreakAndReturn ==
    (Consecutive("BRK", "RTI") /\ BreakBits(previous.pre.cpu.p) = 0) =>
        LET S == previous.pre.cpu.s
        IN  /\ nes.cpu.s = S
            /\ nes.cpu.p = previous.pre.cpu.p
            /\ BreakBits(nes.cpu.p) = 0
            /\ \A f \in {C, Z, I, D, V, N} :
                 Flag(f) <=> contains(previous.pre.cpu.p, f)
            /\ nes.cpu.pc = ByteBefore(wrapping_sub8(S, 1)) + 256 * ByteBefore(S)
            /\ nes.cpu.pc = wrapping_add16(previous.pre.cpu.pc, 1)
            /\ last.pre.cpu.s = wrapping_sub8(S, 3)

\* C34 witness: BRK at 0x020F with s = 0xFD and status N|V|D|C, then RTI at
\* 0x0000, came back to 0x0210 with s = 0xFD and the same status
C34_Witness ==
    /\ Consecutive("BRK", "RTI")
    /\ previous.pre.cpu.pc = \h020F
    /\ previous.pre.cpu.s = \hFD
    /\ previous.pre.cpu.p = \hC9
    /\ last.pre.cpu.p = \hF9
    /\ last.pre.cpu.pc = \h0000
    /\ nes.cpu.pc = \h0210
    /\ nes.cpu.s = \hFD
    /\ nes.cpu.p = \hC9

\* the latest call executed ASL or LSR and returned
Shifted == Completed /\ last.instruction.mnemonic \in {"ASL", "LSR"}

\* C35 (as the specification states it): on the accumulator and on a memory
\* cell alike, ASL leaves (v << 1) mod 256 with Carry = the original bit 7,
\* and LSR leaves v >> 1 with Carry = the original bit 0 and Negative clear.
C35_CarryIsBitShiftedOut ==
    Shifted =>
        IF last.instruction.mnemonic = "ASL"
        THEN /\ TargetAfter = (TargetBefore * 2) % 256
             /\ Flag(C) <=> TargetBefore >= 128
        ELSE /\ TargetAfter = TargetBefore \div 2
             /\ Flag(C) <=> TargetBefore % 2 = 1
             /\ ~Flag(N)

\* C35 failing state: LSR of the accumulator holding 0x01 with Carry clear
\* left 0x00 and Carry still clear, the bit shifted out being 1
C35_LSRCarryFromBit7 ==
    /\ Shifted
    /\ last.instruction.mnemonic = "LSR"
    /\ OnAccumulator
    /\ last.pre.cpu.a = \h01
    /\ last.pre.cpu.p = 0
    /\ nes.cpu.a = 0
    /\ Flag(Z)
    /\ ~Flag(C)

\* C36 (as the specification states it): PLA and PLP each cost exactly 4
\* ticks from instruction start, and PHA and PHP each cost exactly 3.
C36_PullAndPushCosts ==
    /\ (Completed /\ last.instruction.mnemonic \in {"PLA", "PLP"}) => StepTicks = 4
    /\ (Completed /\ last.instruction.mnemonic \in {"PHA", "PHP"}) => StepTicks = 3

\* C36 failing state: PLA at 0x020F with s = 0xFD made its fetch, one read
\* of the stack cell 0xFE and one more tick, 3 ticks in all
C36_PullAccumulatorInThree ==
    /\ Completed
    /\ last.instruction.mnemonic = "PLA"
    /\ last.pre.cpu.pc = \h020F
    /\ last.pre.cpu.s = \hFD
    /\ nes.cpu.s = \hFE
    /\ Len(log) = 2
    /\ log[2].op = "read" /\ log[2].addr = \h00FE
    /\ ExecuteTicks = 1
    /\ StepTicks = 3

\* the latest two calls were the accumulator forms of the two operations,
\* one right after the other
AccumulatorPair(first, second) ==
    /\ Consecutive(first, second)
    /\ previous.instruction.mode.name = "Accumulator"
    /\ last.instruction.mode.name = "Accumulator"

\* C37: ROL on the accumulator immediately followed by ROR on the
\* accumulator leaves the accumulator and the Carry flag as they were before
\* the two, for every accumulator value and either Carry value, and so does
\* ROR followed by ROL.
C37_RotateRoundTrip ==
    (AccumulatorPair("ROL", "ROR") \/ AccumulatorPair("ROR", "ROL")) =>
        /\ nes.cpu.a = previous.pre.cpu.a
        /\ Flag(C) <=> contains(previous.pre.cpu.p, C)

\* C37 witness: ROL of 0x8A with Carry clear gave 0x14 with Carry set, and
\* the ROR after it gave 0x8A with Carry clear again
C37_Witness ==
    /\ AccumulatorPair("ROL", "ROR")
    /\ previous.pre.cpu.a = \h8A
    /\ ~contains(previous.pre.cpu.p, C)
    /\ last.pre.cpu.a = \h14
    /\ contains(last.pre.cpu.p, C)
    /\ nes.cpu.a = \h8A
    /\ ~Flag(C)

\* C38 (as the specification states it): cpu_step completes without
\* faulting for every value of PC and of every pointer it dereferences, all
\* 16-bit address arithmetic wrapping modulo 2^16; an Indirect pointer of
\* 0xFFFF is dereferenced without overflow.
C38_StepNeverFaults ==
    Stepped =>
        /\ fault = "none"
        /\ (last.instruction.mode.name = "Indirect" /\ StreamWord = \hFFFF) =>
             last.operand = ByteBefore(\hFFFF) + 256 * ByteBefore(\hFF00)

\* C38 failing state: JMP ($FFFF) on the address-space router in a build
\* with overflow checks read the low byte at 0xFFFF and panicked on
\* `addr + 1` before reading the high byte
C38_PointerAtTopOverflows ==
    /\ Stepped
    /\ bus = "Bus"
    /\ overflow_checks
    /\ last.instruction = Instruction("JMP", Indirect)
    /\ StreamWord = \hFFFF
    /\ fault = "add_overflow"
    /\ last.resolved.fault = "add_overflow"

\* C39: for every opcode byte and every CPU state, a step that returns has
\* cost at least 2 and at most 7 ticks.
C39_StepCostBounds ==
    Completed => (StepTicks >= 2 /\ StepTicks <= 7)

\* C39 witness: INC absolute,X, a read-modify-write, made five bus accesses
\* and cost 7 ticks
C39_Witness ==
    /\ Completed
    /\ last.opcode = \hFE
    /\ last.instruction = Instruction("INC", AbsoluteX(FALSE))
    /\ StepTicks = 7
    /\ Len(log) = 5

====
